---- MODULE Spec2Model ----
(***************************************************************************)
(* cc-sessions workflow state engine: the user-message hook (trigger       *)
(* detector, mode controller, context budget monitor) and the project      *)
(* step tracker.                                                           *)
(*                                                                         *)
(* Strings are sequences of one-character strings so that substring        *)
(* tests, str.lower(), str.strip() and string comparison are computed the  *)
(* way Python computes them.                                               *)
(***************************************************************************)
EXTENDS Integers, Sequences, FiniteSets, TLC

VARIABLES
    config,           \* sessions/sessions-config.json as loaded by the hook
    tiktoken,         \* whether the optional tiktoken import succeeded
    daic_mode,        \* .claude/state/daic-mode.json: the persisted mode
    warning_75_flag,  \* .claude/state/context-warning-75.flag exists
    warning_90_flag,  \* .claude/state/context-warning-90.flag exists
    transcript,       \* the JSONL transcript, one record per line
    usage_stats,      \* .claude/state/usage_stats.json
    prompt,           \* the prompt of the last hook invocation
    mode_before,      \* persisted mode when that invocation started
    context,          \* additionalContext of that invocation (annotations)
    context_length,   \* context length computed by that invocation
    monitor_ran,      \* whether the monitor block ran in that invocation
    selected_line,    \* transcript line whose usage that invocation selected
    runs90,           \* monitor runs at >= 90% since the flags were cleared
    emitted90,        \* 90% warnings emitted since the flags were cleared
    invocations,      \* hook processes that run at the same time
    last,             \* the operation that ran last
    projects,         \* step tracker: project name -> project record
    current_task,     \* .claude/state/current_task.json
    branches,         \* git refs that exist
    head_branch,      \* git: the checked-out branch
    result,           \* step tracker: outcome of the last command
    settings,         \* .claude/settings.json
    components,       \* installed files and global commands that exist
    run               \* the installer or uninstaller process that ran last

hookVars == <<config, tiktoken, daic_mode, warning_75_flag,
              warning_90_flag, transcript, usage_stats, prompt, mode_before,
              context, context_length, monitor_ran, selected_line, runs90,
              emitted90, invocations>>
trackerVars == <<projects, current_task, branches, head_branch, result>>
installVars == <<settings, components, run>>
vars == <<hookVars, trackerVars, installVars, last>>

----------------------------------------------------------------------------
(* Python string primitives *)

UPPER == <<"A", "B", "C", "D", "E", "F", "G", "H", "I", "J", "K", "L", "M",
           "N", "O", "P", "Q", "R", "S", "T", "U", "V", "W", "X", "Y", "Z">>
LOWER == <<"a", "b", "c", "d", "e", "f", "g", "h", "i", "j", "k", "l", "m",
           "n", "o", "p", "q", "r", "s", "t", "u", "v", "w", "x", "y", "z">>

\* str.lower() on one character
LowerChar(c) ==
    IF \E i \in 1..Len(UPPER) : UPPER[i] = c
    THEN LOWER[CHOOSE i \in 1..Len(UPPER) : UPPER[i] = c]
    ELSE c

\* str.lower()
Lower(s) == [i \in 1..Len(s) |-> LowerChar(s[i])]

\* Python's `sub in s`
Contains(sub, s) ==
    \E i \in 0..(Len(s) - Len(sub)) : \A j \in 1..Len(sub) : s[i + j] = sub[j]

\* any(phrase in s for phrase in phrases)
AnyIn(phrases, s) == \E k \in 1..Len(phrases) : Contains(phrases[k], s)

\* str.startswith
StartsWith(s, prefix) ==
    /\ Len(prefix) <= Len(s)
    /\ \A j \in 1..Len(prefix) : s[j] = prefix[j]

\* str.lstrip() for the whitespace the prompts carry
RECURSIVE LStrip(_)
LStrip(s) == IF s # <<>> /\ Head(s) = " " THEN LStrip(Tail(s)) ELSE s

\* str.rstrip() and str.strip()
RECURSIVE RStrip(_)
RStrip(s) ==
    IF s # <<>> /\ s[Len(s)] = " " THEN RStrip(SubSeq(s, 1, Len(s) - 1)) ELSE s

Strip(s) == RStrip(LStrip(s))

\* code-point order of the characters that are compared as strings
CHAR_ORDER == <<".", "0", "1", "2", "3", "4", "5", "6", "7", "8", "9">>

Ord(c) == CHOOSE i \in 1..Len(CHAR_ORDER) : CHAR_ORDER[i] = c

\* Python's `a > b` on strings
RECURSIVE StrGreater(_, _)
StrGreater(a, b) ==
    IF a = <<>> THEN FALSE
    ELSE IF b = <<>> THEN TRUE
    ELSE IF Head(a) # Head(b) THEN Ord(Head(a)) > Ord(Head(b))
    ELSE StrGreater(Tail(a), Tail(b))

\* dict.get(key, default)
Get(d, key, default) == IF key \in DOMAIN d THEN d[key] ELSE default

----------------------------------------------------------------------------
(* Phrase tables of the user-message hook *)

ADD_TRIGGER == <<"/", "a", "d", "d", "-", "t", "r", "i", "g", "g", "e", "r">>
ITERLOOP == <<"i", "t", "e", "r", "l", "o", "o", "p">>
CONTEXT_GATHERING == <<"c", "o", "n", "t", "e", "x", "t", "-", "g", "a", "t", "h", "e", "r", "i", "n", "g">>

DEFAULT_TRIGGER_PHRASES ==
    << <<"m", "a", "k", "e", " ", "i", "t", " ", "s", "o">>,
       <<"r", "u", "n", " ", "t", "h", "a", "t">>,
       <<"y", "e", "r", "t">> >>

EMERGENCY_WORDS ==
    << <<"S", "I", "L", "E", "N", "C", "E">>,
       <<"S", "T", "O", "P">> >>

COMPACTION_PHRASES ==
    << <<"c", "o", "m", "p", "a", "c", "t">>,
       <<"r", "e", "s", "t", "a", "r", "t", " ", "s", "e", "s", "s", "i", "o", "n">>,
       <<"c", "o", "n", "t", "e", "x", "t", " ", "c", "o", "m", "p", "a", "c", "t", "i", "o", "n">> >>

COMPLETION_PHRASES ==
    << <<"c", "o", "m", "p", "l", "e", "t", "e", " ", "t", "h", "e", " ", "t", "a", "s", "k">>,
       <<"f", "i", "n", "i", "s", "h", " ", "t", "h", "e", " ", "t", "a", "s", "k">>,
       <<"t", "a", "s", "k", " ", "i", "s", " ", "d", "o", "n", "e">>,
       <<"m", "a", "r", "k", " ", "a", "s", " ", "c", "o", "m", "p", "l", "e", "t", "e">>,
       <<"c", "l", "o", "s", "e", " ", "t", "h", "e", " ", "t", "a", "s", "k">>,
       <<"w", "r", "a", "p", " ", "u", "p", " ", "t", "h", "e", " ", "t", "a", "s", "k">> >>

CREATION_PHRASES ==
    << <<"c", "r", "e", "a", "t", "e", " ", "a", " ", "n", "e", "w", " ", "t", "a", "s", "k">>,
       <<"c", "r", "e", "a", "t", "e", " ", "a", " ", "t", "a", "s", "k">>,
       <<"m", "a", "k", "e", " ", "a", " ", "t", "a", "s", "k">>,
       <<"n", "e", "w", " ", "t", "a", "s", "k", " ", "f", "o", "r">>,
       <<"a", "d", "d", " ", "a", " ", "t", "a", "s", "k">> >>

SWITCHING_PHRASES ==
    << <<"s", "w", "i", "t", "c", "h", " ", "t", "o", " ", "t", "a", "s", "k">>,
       <<"w", "o", "r", "k", " ", "o", "n", " ", "t", "a", "s", "k">>,
       <<"c", "h", "a", "n", "g", "e", " ", "t", "o", " ", "t", "a", "s", "k">> >>

task_patterns ==
    << <<"w", "e", " ", "s", "h", "o", "u", "l", "d", " ", "i", "m", "p", "l", "e", "m", "e", "n", "t">>,
       <<"w", "e", " ", "s", "h", "o", "u", "l", "d", " ", "f", "i", "x">>,
       <<"w", "e", " ", "s", "h", "o", "u", "l", "d", " ", "r", "e", "f", "a", "c", "t", "o", "r">>,
       <<"w", "e", " ", "s", "h", "o", "u", "l", "d", " ", "m", "i", "g", "r", "a", "t", "e">>,
       <<"w", "e", " ", "s", "h", "o", "u", "l", "d", " ", "t", "e", "s", "t">>,
       <<"w", "e", " ", "s", "h", "o", "u", "l", "d", " ", "r", "e", "s", "e", "a", "r", "c", "h">>,
       <<"w", "e", " ", "n", "e", "e", "d", " ", "t", "o", " ", "i", "m", "p", "l", "e", "m", "e", "n", "t">>,
       <<"w", "e", " ", "n", "e", "e", "d", " ", "t", "o", " ", "f", "i", "x">>,
       <<"w", "e", " ", "n", "e", "e", "d", " ", "t", "o", " ", "r", "e", "f", "a", "c", "t", "o", "r">>,
       <<"w", "e", " ", "n", "e", "e", "d", " ", "t", "o", " ", "m", "i", "g", "r", "a", "t", "e">>,
       <<"w", "e", " ", "n", "e", "e", "d", " ", "t", "o", " ", "t", "e", "s", "t">>,
       <<"w", "e", " ", "n", "e", "e", "d", " ", "t", "o", " ", "r", "e", "s", "e", "a", "r", "c", "h">>,
       <<"w", "e", " ", "h", "a", "v", "e", " ", "t", "o", " ", "i", "m", "p", "l", "e", "m", "e", "n", "t">>,
       <<"w", "e", " ", "h", "a", "v", "e", " ", "t", "o", " ", "f", "i", "x">>,
       <<"w", "e", " ", "h", "a", "v", "e", " ", "t", "o", " ", "r", "e", "f", "a", "c", "t", "o", "r">>,
       <<"w", "e", " ", "h", "a", "v", "e", " ", "t", "o", " ", "m", "i", "g", "r", "a", "t", "e">>,
       <<"w", "e", " ", "h", "a", "v", "e", " ", "t", "o", " ", "t", "e", "s", "t">>,
       <<"w", "e", " ", "h", "a", "v", "e", " ", "t", "o", " ", "r", "e", "s", "e", "a", "r", "c", "h">>,
       <<"c", "r", "e", "a", "t", "e", " ", "a", " ", "t", "a", "s", "k", " ", "f", "o", "r">>,
       <<"a", "d", "d", " ", "t", "h", "i", "s", " ", "t", "o", " ", "t", "h", "e", " ", "t", "a", "s", "k", " ", "l", "i", "s", "t">>,
       <<"a", "d", "d", " ", "t", "h", "i", "s", " ", "t", "o", " ", "t", "h", "e", " ", "t", "o", "d", "o">>,
       <<"a", "d", "d", " ", "t", "h", "i", "s", " ", "t", "o", " ", "t", "h", "e", " ", "b", "a", "c", "k", "l", "o", "g">>,
       <<"w", "e", "'", "l", "l", " ", "n", "e", "e", "d", " ", "t", "o", " ", "d", "o", " ", "t", "h", "i", "s", " ", "l", "a", "t", "e", "r">>,
       <<"w", "e", "'", "l", "l", " ", "n", "e", "e", "d", " ", "t", "o", " ", "d", "o", " ", "t", "h", "a", "t", " ", "l", "a", "t", "e", "r">>,
       <<"w", "e", "'", "l", "l", " ", "n", "e", "e", "d", " ", "t", "o", " ", "h", "a", "n", "d", "l", "e", " ", "t", "h", "i", "s", " ", "l", "a", "t", "e", "r">>,
       <<"w", "e", "'", "l", "l", " ", "n", "e", "e", "d", " ", "t", "o", " ", "h", "a", "n", "d", "l", "e", " ", "t", "h", "a", "t", " ", "l", "a", "t", "e", "r">>,
       <<"w", "e", "'", "l", "l", " ", "n", "e", "e", "d", " ", "t", "o", " ", "a", "d", "d", "r", "e", "s", "s", " ", "t", "h", "i", "s", " ", "l", "a", "t", "e", "r">>,
       <<"w", "e", "'", "l", "l", " ", "n", "e", "e", "d", " ", "t", "o", " ", "a", "d", "d", "r", "e", "s", "s", " ", "t", "h", "a", "t", " ", "l", "a", "t", "e", "r">>,
       <<"w", "e", "'", "l", "l", " ", "h", "a", "v", "e", " ", "t", "o", " ", "d", "o", " ", "t", "h", "i", "s", " ", "l", "a", "t", "e", "r">>,
       <<"w", "e", "'", "l", "l", " ", "h", "a", "v", "e", " ", "t", "o", " ", "d", "o", " ", "t", "h", "a", "t", " ", "l", "a", "t", "e", "r">>,
       <<"w", "e", "'", "l", "l", " ", "h", "a", "v", "e", " ", "t", "o", " ", "h", "a", "n", "d", "l", "e", " ", "t", "h", "i", "s", " ", "l", "a", "t", "e", "r">>,
       <<"w", "e", "'", "l", "l", " ", "h", "a", "v", "e", " ", "t", "o", " ", "h", "a", "n", "d", "l", "e", " ", "t", "h", "a", "t", " ", "l", "a", "t", "e", "r">>,
       <<"w", "e", "'", "l", "l", " ", "h", "a", "v", "e", " ", "t", "o", " ", "a", "d", "d", "r", "e", "s", "s", " ", "t", "h", "i", "s", " ", "l", "a", "t", "e", "r">>,
       <<"w", "e", "'", "l", "l", " ", "h", "a", "v", "e", " ", "t", "o", " ", "a", "d", "d", "r", "e", "s", "s", " ", "t", "h", "a", "t", " ", "l", "a", "t", "e", "r">>,
       <<"t", "h", "a", "t", "'", "s", " ", "a", " ", "s", "e", "p", "a", "r", "a", "t", "e", " ", "t", "a", "s", "k">>,
       <<"t", "h", "a", "t", "'", "s", " ", "a", " ", "s", "e", "p", "a", "r", "a", "t", "e", " ", "i", "s", "s", "u", "e">>,
       <<"t", "h", "a", "t", "'", "s", " ", "a", " ", "s", "e", "p", "a", "r", "a", "t", "e", " ", "p", "r", "o", "b", "l", "e", "m">>,
       <<"f", "i", "l", "e", " ", "t", "h", "i", "s", " ", "a", "s", " ", "a", " ", "b", "u", "g">>,
       <<"f", "i", "l", "e", " ", "t", "h", "i", "s", " ", "a", "s", " ", "a", " ", "t", "a", "s", "k">>,
       <<"f", "i", "l", "e", " ", "t", "h", "i", "s", " ", "a", "s", " ", "a", " ", "i", "s", "s", "u", "e">> >>

FIRST_TIME_PHRASES ==
    << <<"h", "o", "w", " ", "d", "o", " ", "i">>,
       <<"w", "h", "a", "t", " ", "s", "h", "o", "u", "l", "d", " ", "i">>,
       <<"w", "h", "a", "t", "'", "s", " ", "n", "e", "x", "t">>,
       <<"h", "e", "l", "p", " ", "m", "e">> >>

help_patterns ==
    << <<"c", "a", "n", " ", "y", "o", "u">>,
       <<"s", "t", "u", "c", "k">>,
       <<"c", "o", "n", "f", "u", "s", "e", "d">>,
       <<"n", "o", "t", " ", "w", "o", "r", "k", "i", "n", "g">> >>

ANALYSIS_PHRASES ==
    << <<"a", "n", "a", "l", "y", "z", "e">>,
       <<"r", "e", "v", "i", "e", "w">>,
       <<"u", "n", "d", "e", "r", "s", "t", "a", "n", "d">>,
       <<"e", "x", "a", "m", "i", "n", "e">>,
       <<"i", "n", "v", "e", "s", "t", "i", "g", "a", "t", "e">> >>

feature_opportunities ==
    << <<"m", "u", "l", "t", "i", "p", "l", "e", " ", "f", "i", "l", "e", "s">>,
       <<"m", "a", "n", "y", " ", "f", "i", "l", "e", "s">>,
       <<"s", "e", "v", "e", "r", "a", "l", " ", "f", "i", "l", "e", "s">>,
       <<"c", "o", "m", "p", "l", "e", "x", " ", "p", "r", "o", "j", "e", "c", "t">>,
       <<"b", "i", "g", " ", "p", "r", "o", "j", "e", "c", "t">>,
       <<"l", "a", "r", "g", "e", " ", "p", "r", "o", "j", "e", "c", "t">>,
       <<"s", "t", "e", "p", " ", "b", "y", " ", "s", "t", "e", "p">>,
       <<"p", "h", "a", "s", "e", "s">>,
       <<"m", "u", "l", "t", "i", "p", "l", "e", " ", "s", "t", "e", "p", "s">>,
       <<"r", "e", "v", "i", "e", "w">>,
       <<"c", "h", "e", "c", "k">>,
       <<"q", "u", "a", "l", "i", "t", "y">>,
       <<"d", "o", "c", "u", "m", "e", "n", "t">>,
       <<"d", "o", "c", "s">>,
       <<"d", "o", "c", "u", "m", "e", "n", "t", "a", "t", "i", "o", "n">> >>

MEMORY_PHRASES ==
    << <<"r", "e", "m", "e", "m", "b", "e", "r">>,
       <<"p", "r", "e", "v", "i", "o", "u", "s">>,
       <<"l", "a", "s", "t", " ", "t", "i", "m", "e">>,
       <<"b", "e", "f", "o", "r", "e">> >>

STATUS_PHRASES ==
    << <<"w", "h", "a", "t", " ", "m", "o", "d", "e">>,
       <<"c", "u", "r", "r", "e", "n", "t", " ", "s", "t", "a", "t", "e">>,
       <<"w", "h", "e", "r", "e", " ", "a", "m", " ", "i">> >>

BUILD_PHRASES ==
    << <<"b", "i", "g", " ", "t", "a", "s", "k">>,
       <<"m", "u", "l", "t", "i", "p", "l", "e", " ", "s", "t", "e", "p", "s">>,
       <<"c", "o", "m", "p", "l", "e", "x", " ", "p", "r", "o", "j", "e", "c", "t">>,
       <<"r", "o", "a", "d", "m", "a", "p">> >>

REVIEW_PHRASES ==
    << <<"d", "o", "n", "e">>,
       <<"f", "i", "n", "i", "s", "h", "e", "d">>,
       <<"c", "o", "m", "p", "l", "e", "t", "e", "d">>,
       <<"c", "o", "m", "m", "i", "t">> >>

----------------------------------------------------------------------------
(* Context budget monitor *)

CONTEXT_LIMIT == 160000

NO_USAGE == <<>>

\* a transcript line that is not valid JSON
MALFORMED_LINE ==
    [json |-> FALSE, timestamp |-> <<>>, isSidechain |-> FALSE, usage |-> NO_USAGE]

NO_SELECTION == [timestamp |-> <<>>, usage |-> NO_USAGE, index |-> 0]

\* the loop over the transcript lines: the most recent main-chain entry
\* that has usage data, with the index of the line it came from
\* variant: side-chain entries are not skipped
RECURSIVE ScanLinesWithSidechain(_, _, _)
ScanLinesWithSidechain(lines, i, most_recent) ==
    IF i > Len(lines) THEN most_recent
    ELSE LET data == lines[i] IN
         IF ~data.json THEN ScanLinesWithSidechain(lines, i + 1, most_recent)
         ELSE IF /\ data.usage # NO_USAGE
                 /\ data.timestamp # <<>>
                 /\ \/ most_recent.timestamp = <<>>
                    \/ StrGreater(data.timestamp, most_recent.timestamp)
              THEN ScanLinesWithSidechain(lines, i + 1,
                             [timestamp |-> data.timestamp,
                              usage |-> data.usage, index |-> i])
              ELSE ScanLinesWithSidechain(lines, i + 1, most_recent)

\* variant: the last main-chain entry of the file wins, whatever its timestamp
RECURSIVE ScanLinesByPosition(_, _, _)
ScanLinesByPosition(lines, i, most_recent) ==
    IF i > Len(lines) THEN most_recent
    ELSE LET data == lines[i] IN
         IF ~data.json THEN ScanLinesByPosition(lines, i + 1, most_recent)
         ELSE IF data.isSidechain
              THEN ScanLinesByPosition(lines, i + 1, most_recent)
         ELSE IF data.usage # NO_USAGE /\ data.timestamp # <<>>
              THEN ScanLinesByPosition(lines, i + 1,
                             [timestamp |-> data.timestamp,
                              usage |-> data.usage, index |-> i])
              ELSE ScanLinesByPosition(lines, i + 1, most_recent)

RECURSIVE ScanLines(_, _, _)
ScanLines(lines, i, most_recent) ==
    IF i > Len(lines) THEN most_recent
    ELSE LET data == lines[i] IN
         IF ~data.json THEN ScanLines(lines, i + 1, most_recent)
         ELSE IF data.isSidechain THEN ScanLines(lines, i + 1, most_recent)
         ELSE IF /\ data.usage # NO_USAGE
                 /\ data.timestamp # <<>>
                 /\ \/ most_recent.timestamp = <<>>
                    \/ StrGreater(data.timestamp, most_recent.timestamp)
              THEN ScanLines(lines, i + 1,
                             [timestamp |-> data.timestamp,
                              usage |-> data.usage, index |-> i])
              ELSE ScanLines(lines, i + 1, most_recent)

most_recent_entry(lines) == ScanLines(lines, 1, NO_SELECTION)

usage_total(most_recent_usage) ==
    Get(most_recent_usage, "input_tokens", 0)
    + Get(most_recent_usage, "cache_read_input_tokens", 0)
    + Get(most_recent_usage, "cache_creation_input_tokens", 0)

get_context_length_from_transcript(lines) ==
    LET most_recent_usage == most_recent_entry(lines).usage IN
    IF most_recent_usage # NO_USAGE THEN usage_total(most_recent_usage) ELSE 0
\* variant: the thresholds are exclusive
usable_above(length, pct) == length * 100 > pct * CONTEXT_LIMIT

\* usable_percentage >= pct, with usable_percentage = length / 160000 * 100
\* (the float product is exact at both thresholds)
usable_at_least(length, pct) == length * 100 >= pct * CONTEXT_LIMIT

\* variant: the 90% flag file is not consulted
context_warning_unflagged(ran, length, flag75, flag90) ==
    IF ~ran \/ ~(length > 0) THEN "none"
    ELSE IF usable_at_least(length, 90) THEN "90"
    ELSE IF usable_at_least(length, 75) /\ ~flag75 THEN "75"
    ELSE "none"

\* variant: the 75% flag file is not consulted
context_warning_repeated_75(ran, length, flag75, flag90) ==
    IF ~ran \/ ~(length > 0) THEN "none"
    ELSE IF usable_at_least(length, 90) /\ ~flag90 THEN "90"
    ELSE IF usable_at_least(length, 75) THEN "75"
    ELSE "none"

\* which warning the monitor block emits: "90", "75" or "none"
context_warning(ran, length, flag75, flag90) ==
    IF ~ran \/ ~(length > 0) THEN "none"
    ELSE IF usable_at_least(length, 90) /\ ~flag90 THEN "90"
    ELSE IF usable_at_least(length, 75) /\ ~flag75 THEN "75"
    ELSE "none"

----------------------------------------------------------------------------
(* Mode controller (shared_state) *)

\* check_daic_mode_bool(): True in discussion mode
check_daic_mode_bool(record) == record = "discussion"

\* set_daic_mode(value): True writes discussion, False implementation
set_daic_mode(value) == IF value THEN "discussion" ELSE "implementation"

----------------------------------------------------------------------------
(* Trigger detector *)

trigger_phrases(cfg) == Get(cfg, "trigger_phrases", DEFAULT_TRIGGER_PHRASES)

is_add_trigger_command(p) == StartsWith(Strip(p), ADD_TRIGGER)
\* variant: the prefix is added whatever the configuration and the message
ultrathink_prefix_always(cfg, p) == <<"ultrathink">>

\* the [[ ultrathink ]] prefix
ultrathink_prefix(cfg, p) ==
    IF ~Get(cfg, "api_mode", FALSE) /\ ~is_add_trigger_command(p)
    THEN <<"ultrathink">> ELSE <<>>

\* variant: the trigger does not look at the current mode
implementation_trigger_any_mode(cfg, p, current_mode) ==
    /\ ~is_add_trigger_command(p)
    /\ \E k \in 1..Len(trigger_phrases(cfg)) :
           Contains(trigger_phrases(cfg)[k], Lower(p))

\* variant: /add-trigger commands are scanned for trigger phrases too
implementation_trigger_in_commands(cfg, p, current_mode) ==
    /\ current_mode
    /\ \E k \in 1..Len(trigger_phrases(cfg)) :
           Contains(trigger_phrases(cfg)[k], Lower(p))

\* the condition of the implementation trigger
implementation_trigger(cfg, p, current_mode) ==
    /\ ~is_add_trigger_command(p)
    /\ current_mode
    /\ \E k \in 1..Len(trigger_phrases(cfg)) :
           Contains(trigger_phrases(cfg)[k], Lower(p))

\* variant: the emergency words are matched in any letter case
emergency_stop_any_case(p) ==
    \E k \in 1..Len(EMERGENCY_WORDS) : Contains(Lower(EMERGENCY_WORDS[k]), Lower(p))

\* the condition of the emergency stop
emergency_stop(p) == AnyIn(EMERGENCY_WORDS, p)

\* variant: the emergency stop is applied before the implementation trigger
daic_mode_after_stop_first(cfg, p, record) ==
    LET current_mode == check_daic_mode_bool(record)
        after_stop == IF emergency_stop(p) THEN set_daic_mode(TRUE) ELSE record
    IN  IF implementation_trigger(cfg, p, current_mode)
        THEN set_daic_mode(FALSE) ELSE after_stop

\* the persisted mode after the two DAIC rules, in source order
daic_mode_after(cfg, p, record) ==
    LET current_mode == check_daic_mode_bool(record)
        after_trigger == IF implementation_trigger(cfg, p, current_mode)
                         THEN set_daic_mode(FALSE) ELSE record
    IN  IF emergency_stop(p) THEN set_daic_mode(TRUE) ELSE after_trigger

\* variant: the emergency-stop annotation is written before the trigger's
daic_annotations_stop_first(cfg, p, record) ==
    (IF emergency_stop(p) THEN <<"emergency_stop">> ELSE <<>>)
    \o (IF implementation_trigger(cfg, p, check_daic_mode_bool(record))
        THEN <<"implementation_mode">> ELSE <<>>)

\* the annotations of the two DAIC rules, in source order
daic_annotations(cfg, p, record) ==
    (IF implementation_trigger(cfg, p, check_daic_mode_bool(record))
     THEN <<"implementation_mode">> ELSE <<>>)
    \o (IF emergency_stop(p) THEN <<"emergency_stop">> ELSE <<>>)

iterloop_annotation(p) ==
    IF Contains(ITERLOOP, Lower(p)) THEN <<"iterloop">> ELSE <<>>

\* the four protocol detectors and the task-detection notice
protocol_annotations(cfg, p) ==
    LET prompt_lower == Lower(p) IN
    (IF AnyIn(COMPACTION_PHRASES, prompt_lower)
     THEN <<"context_compaction">> ELSE <<>>)
    \o (IF AnyIn(COMPLETION_PHRASES, prompt_lower)
        THEN <<"task_completion">> ELSE <<>>)
    \o (IF AnyIn(CREATION_PHRASES, prompt_lower)
        THEN <<"task_creation">> ELSE <<>>)
    \o (IF AnyIn(SWITCHING_PHRASES, prompt_lower)
        THEN <<"task_startup">> ELSE <<>>)
    \o (IF /\ Get(Get(cfg, "task_detection", <<>>), "enabled", TRUE)
           /\ AnyIn(task_patterns, prompt_lower)
        THEN <<"task_detection">> ELSE <<>>)

\* add_smart_suggestions(prompt)
add_smart_suggestions(cfg, p, task, current_mode) ==
    LET pl == Lower(p)
        first_time == AnyIn(FIRST_TIME_PHRASES, pl)
        \* trigger_phrases[0] of an empty list raises; the except clause
        \* returns the suggestions collected so far, which are none
        raises == first_time /\ task # <<>> /\ current_mode
                  /\ trigger_phrases(cfg) = <<>>
        tips == (IF first_time /\ task = <<>> THEN <<"tip_create_task">>
                 ELSE IF first_time /\ current_mode
                 THEN <<"tip_discussion_mode">> ELSE <<>>)
             \o (IF AnyIn(help_patterns, pl) THEN <<"help_suggestion">> ELSE <<>>)
             \o (IF AnyIn(ANALYSIS_PHRASES, pl) /\ ~Contains(CONTEXT_GATHERING, pl)
                 THEN <<"tip_context_gathering">> ELSE <<>>)
             \o (IF AnyIn(feature_opportunities, pl)
                 THEN <<"feature_suggestion">> ELSE <<>>)
             \o (IF /\ AnyIn(MEMORY_PHRASES, pl)
                    /\ ~Get(Get(cfg, "memory_bank_mcp", <<>>), "enabled", FALSE)
                 THEN <<"tip_memory_bank">> ELSE <<>>)
             \o (IF AnyIn(STATUS_PHRASES, pl) THEN <<"tip_status">> ELSE <<>>)
             \o (IF AnyIn(BUILD_PHRASES, pl) THEN <<"tip_build_project">> ELSE <<>>)
             \o (IF task # <<>> /\ AnyIn(REVIEW_PHRASES, pl)
                 THEN <<"tip_code_review">> ELSE <<>>)
    IN  IF raises THEN <<>> ELSE tips

\* str.split()[0]: the text up to the first blank
RECURSIVE FirstToken(_)
FirstToken(s) ==
    IF s = <<>> \/ Head(s) = " " THEN <<>>
    ELSE <<Head(s)>> \o FirstToken(Tail(s))

AGENT == <<"a", "g", "e", "n", "t">>
agent_keywords ==
    << <<"c", "o", "n", "t", "e", "x", "t", "-", "g", "a", "t", "h", "e", "r", "i", "n", "g">>,
       <<"l", "o", "g", "g", "i", "n", "g">>,
       <<"c", "o", "d", "e", "-", "r", "e", "v", "i", "e", "w">>,
       <<"c", "o", "n", "t", "e", "x", "t", "-", "r", "e", "f", "i", "n", "e", "m", "e", "n", "t">>,
       <<"s", "e", "r", "v", "i", "c", "e", "-", "d", "o", "c", "u", "m", "e", "n", "t", "a", "t", "i", "o", "n">> >>
TASK_WORDS ==
    << <<"t", "a", "s", "k">>,
       <<"c", "r", "e", "a", "t", "e">>,
       <<"i", "m", "p", "l", "e", "m", "e", "n", "t">>,
       <<"f", "i", "x">> >>

\* dict[key] = dict.get(key, 0) + 1
Increment(d, key) ==
    [k \in DOMAIN d \cup {key} |->
        IF k = key THEN Get(d, key, 0) + 1 ELSE d[k]]

RECURSIVE count_agents(_, _, _)
count_agents(agents_used, k, pl) ==
    IF k > Len(agent_keywords) THEN agents_used
    ELSE count_agents(IF Contains(agent_keywords[k], pl)
                      THEN Increment(agents_used, agent_keywords[k])
                      ELSE agents_used,
                      k + 1, pl)

\* update_usage_stats_for_user_input(prompt); without a statistics file
\* the function returns at once
update_usage_stats_for_user_input(stats, cfg, p) ==
    IF ~stats.exists THEN stats
    ELSE LET pl == Lower(p)
             stripped == Strip(p)
         IN  [exists |-> TRUE,
              commands_used |->
                  IF StartsWith(stripped, <<"/">>)
                  THEN Increment(stats.commands_used, FirstToken(stripped))
                  ELSE stats.commands_used,
              agents_used |->
                  IF Contains(AGENT, pl)
                  THEN count_agents(stats.agents_used, 1, pl)
                  ELSE stats.agents_used,
              daic_switches |->
                  IF \E k \in 1..Len(trigger_phrases(cfg)) :
                         Contains(trigger_phrases(cfg)[k], pl)
                  THEN stats.daic_switches + 1 ELSE stats.daic_switches,
              task_count |->
                  IF AnyIn(TASK_WORDS, pl)
                  THEN stats.task_count + 1 ELSE stats.task_count]

----------------------------------------------------------------------------
(* Installer and uninstaller: .claude/settings.json *)

\* dict with key set to value, and dict without key
Put(d, key, value) ==
    [k \in DOMAIN d \cup {key} |-> IF k = key THEN value ELSE d[k]]

Del(d, key) == [k \in DOMAIN d \ {key} |-> d[k]]

\* the directory the hook commands point into (POSIX form of the command)
HOOK_DIR ==
    <<"$", "C", "L", "A", "U", "D", "E", "_", "P", "R", "O", "J", "E", "C",
      "T", "_", "D", "I", "R", "/", ".", "c", "l", "a", "u", "d", "e", "/",
      "h", "o", "o", "k", "s", "/">>

\* the script names of the seven cc-sessions hooks
USER_MESSAGES ==
    <<"u", "s", "e", "r", "-", "m", "e", "s", "s", "a", "g", "e", "s", ".",
      "p", "y">>

TASK_COMPLETION_WORKFLOW ==
    <<"t", "a", "s", "k", "-", "c", "o", "m", "p", "l", "e", "t", "i", "o",
      "n", "-", "w", "o", "r", "k", "f", "l", "o", "w", ".", "p", "y">>

SESSIONS_ENFORCE ==
    <<"s", "e", "s", "s", "i", "o", "n", "s", "-", "e", "n", "f", "o", "r",
      "c", "e", ".", "p", "y">>

TASK_TRANSCRIPT_LINK ==
    <<"t", "a", "s", "k", "-", "t", "r", "a", "n", "s", "c", "r", "i", "p",
      "t", "-", "l", "i", "n", "k", ".", "p", "y">>

POST_IMPLEMENTATION_RETENTION ==
    <<"p", "o", "s", "t", "-", "i", "m", "p", "l", "e", "m", "e", "n", "t",
      "a", "t", "i", "o", "n", "-", "r", "e", "t", "e", "n", "t", "i", "o",
      "n", ".", "p", "y">>

POST_TOOL_USE ==
    <<"p", "o", "s", "t", "-", "t", "o", "o", "l", "-", "u", "s", "e", ".",
      "p", "y">>

SESSION_START ==
    <<"s", "e", "s", "s", "i", "o", "n", "-", "s", "t", "a", "r", "t", ".",
      "p", "y">>

STATUSLINE_SCRIPT ==
    <<"s", "t", "a", "t", "u", "s", "l", "i", "n", "e", "-", "s", "c", "r",
      "i", "p", "t", ".", "s", "h">>

command_hook(script) == [type |-> "command", command |-> HOOK_DIR \o script]

\* sessions_hooks of save_config
sessions_hooks ==
    [UserPromptSubmit |->
         << [hooks |-> << command_hook(USER_MESSAGES),
                          command_hook(TASK_COMPLETION_WORKFLOW) >>] >>,
     PreToolUse |->
         << [matcher |-> "Write|Edit|MultiEdit|Task|Bash",
             hooks |-> << command_hook(SESSIONS_ENFORCE) >>],
            [matcher |-> "Task",
             hooks |-> << command_hook(TASK_TRANSCRIPT_LINK) >>] >>,
     PostToolUse |->
         << [matcher |-> "Edit|Write|MultiEdit|NotebookEdit",
             hooks |-> << command_hook(POST_IMPLEMENTATION_RETENTION) >>],
            [hooks |-> << command_hook(POST_TOOL_USE) >>] >>,
     SessionStart |->
         << [matcher |-> "startup|clear",
             hooks |-> << command_hook(SESSION_START) >>] >>]

\* the statusLine setting save_config writes when the statusline was installed
sessions_statusline ==
    [type |-> "command",
     command |-> <<"$", "C", "L", "A", "U", "D", "E", "_", "P", "R", "O", "J",
                   "E", "C", "T", "_", "D", "I", "R", "/", ".", "c", "l", "a",
                   "u", "d", "e", "/">> \o STATUSLINE_SCRIPT,
     padding |-> 0]

\* settings.json does not exist
NO_SETTINGS == [missing |-> TRUE]

settings_exists(s) == "missing" \notin DOMAIN s

\* the command strings of one hook entry
entry_commands(entry) ==
    IF "hooks" \in DOMAIN entry
    THEN {Get(entry.hooks[i], "command", <<>>) : i \in DOMAIN entry.hooks}
    ELSE {}

\* existing_commands: the command strings of all entries of a hook type
commands_of(entries) ==
    UNION {entry_commands(entries[i]) : i \in DOMAIN entries}

\* variant: every new entry is appended
merge_entries_always_append(entries, new_entries, existing_commands) ==
    entries \o new_entries

\* the loop over the new entries of one hook type: an entry is appended
\* when none of its commands exists already
RECURSIVE merge_entries(_, _, _)
merge_entries(entries, new_entries, existing_commands) ==
    IF new_entries = <<>> THEN entries
    ELSE LET new_hook_entry == Head(new_entries)
             commands == entry_commands(new_hook_entry)
         IN  IF commands \cap existing_commands = {}
             THEN merge_entries(Append(entries, new_hook_entry),
                                Tail(new_entries),
                                existing_commands \cup commands)
             ELSE merge_entries(entries, Tail(new_entries),
                                existing_commands)

\* the hooks section after the merge of save_config
merge_hooks(hooks) ==
    [hook_type \in DOMAIN hooks \cup DOMAIN sessions_hooks |->
        IF hook_type \notin DOMAIN sessions_hooks THEN hooks[hook_type]
        ELSE IF hook_type \notin DOMAIN hooks THEN sessions_hooks[hook_type]
        ELSE merge_entries(hooks[hook_type], sessions_hooks[hook_type],
                           commands_of(hooks[hook_type]))]

\* settings.json as save_config writes it
save_config_settings(s, statusline_installed) ==
    LET loaded == IF settings_exists(s) THEN s ELSE <<>>
        merged == Put(loaded, "hooks",
                      merge_hooks(Get(loaded, "hooks", <<>>)))
    IN  IF statusline_installed
        THEN Put(merged, "statusLine", sessions_statusline)
        ELSE merged

SESSIONS_HOOK_SCRIPTS ==
    << SESSIONS_ENFORCE, SESSION_START, USER_MESSAGES, POST_TOOL_USE,
       TASK_COMPLETION_WORKFLOW, POST_IMPLEMENTATION_RETENTION,
       TASK_TRANSCRIPT_LINK >>

\* not any(sessions_hook in command for sessions_hook in [...])
not_sessions_hook(hook) ==
    ~AnyIn(SESSIONS_HOOK_SCRIPTS, Get(hook, "command", <<>>))

\* one hook entry after filtering: the entry with the hooks that are left,
\* the entry without its hooks key when it has other keys, or nothing
filter_config(entry) ==
    IF "hooks" \in DOMAIN entry
    THEN LET filtered_hooks == SelectSeq(entry.hooks, not_sessions_hook)
         IN  IF filtered_hooks # <<>>
             THEN << Put(entry, "hooks", filtered_hooks) >>
             ELSE IF Cardinality(DOMAIN entry) > 1
             THEN << Del(entry, "hooks") >>
             ELSE <<>>
    ELSE << entry >>

RECURSIVE filter_configs(_)
filter_configs(configs) ==
    IF configs = <<>> THEN <<>>
    ELSE filter_config(Head(configs)) \o filter_configs(Tail(configs))

\* the hooks section after the filtering: hook types left empty are deleted
filter_hooks(hooks) ==
    LET filtered == [hook_type \in DOMAIN hooks |->
                        filter_configs(hooks[hook_type])]
    IN  [hook_type \in {h \in DOMAIN hooks : filtered[h] # <<>>} |->
            filtered[hook_type]]

\* _scan_settings_hooks: what the uninstaller records about settings.json
\* when it starts
scan_settings_hooks(s) ==
    IF ~settings_exists(s) THEN [exists |-> FALSE]
    ELSE [exists |-> TRUE, has_statusline |-> "statusLine" \in DOMAIN s]

\* variant: every statusLine setting is deleted
remove_settings_hooks_any_statusline(s, settings_info) ==
    IF ~settings_info.exists THEN s
    ELSE LET cleaned ==
                 IF "hooks" \in DOMAIN s
                 THEN IF DOMAIN filter_hooks(s.hooks) = {}
                      THEN Del(s, "hooks")
                      ELSE Put(s, "hooks", filter_hooks(s.hooks))
                 ELSE s
         IN  IF settings_info.has_statusline /\ "statusLine" \in DOMAIN cleaned
             THEN Del(cleaned, "statusLine")
             ELSE cleaned

\* settings.json after _remove_settings_hooks
remove_settings_hooks(s, settings_info) ==
    IF ~settings_info.exists THEN s
    ELSE LET cleaned ==
                 IF "hooks" \in DOMAIN s
                 THEN IF DOMAIN filter_hooks(s.hooks) = {}
                      THEN Del(s, "hooks")
                      ELSE Put(s, "hooks", filter_hooks(s.hooks))
                 ELSE s
         IN  IF /\ settings_info.has_statusline
                /\ "statusLine" \in DOMAIN cleaned
                /\ Contains(STATUSLINE_SCRIPT,
                            Get(cleaned.statusLine, "command", <<>>))
             THEN Del(cleaned, "statusLine")
             ELSE cleaned

----------------------------------------------------------------------------
(* Installer and uninstaller: configuration and components *)

\* __version__ of the package that is being installed
CURRENT_VERSION == "0.2.19"

\* self.config of SessionsInstaller.__init__
DEFAULT_CONFIG ==
    [developer_name |->
         <<"t", "h", "e", " ", "d", "e", "v", "e", "l", "o", "p", "e", "r">>,
     trigger_phrases |->
         << <<"m", "a", "k", "e", " ", "i", "t", " ", "s", "o">>,
            <<"r", "u", "n", " ", "t", "h", "a", "t">>,
            <<"g", "o", " ", "a", "h", "e", "a", "d">>,
            <<"y", "e", "r", "t">> >>,
     blocked_tools |-> <<"Edit", "Write", "MultiEdit", "NotebookEdit">>,
     task_detection |-> [enabled |-> TRUE],
     branch_enforcement |-> [enabled |-> TRUE],
     document_governance |->
         [enabled |-> FALSE, auto_context_retention |-> TRUE,
          document_validation |-> TRUE, conflict_detection |-> TRUE,
          auto_versioning |-> TRUE,
          documents_path |-> "sessions/documents",
          version_history_limit |-> 10,
          require_user_confirmation |-> TRUE,
          prd_file |-> "None", fsd_file |-> "None"],
     memory_bank_mcp |->
         [enabled |-> FALSE, auto_activate |-> TRUE,
          memory_bank_root |-> "", sync_files |-> <<>>]]

\* self.config after load_existing_config: the named keys are taken from
\* the existing configuration, then every key the installer's configuration
\* does not have
load_existing_config(defaults, existing_config) ==
    [key \in DOMAIN defaults \cup DOMAIN existing_config |->
        IF /\ key \in {"developer_name", "trigger_phrases", "blocked_tools",
                       "task_detection", "branch_enforcement",
                       "memory_bank_mcp"}
           /\ key \in DOMAIN existing_config
        THEN existing_config[key]
        ELSE IF key \notin DOMAIN defaults THEN existing_config[key]
        ELSE defaults[key]]

\* current_task.json as save_config writes it
INSTALLED_TASK == [task |-> <<>>, branch |-> <<>>]

\* the files of an installation, one per scanned category, the global daic
\* command and the configuration file
COMPONENT_FILES ==
    {".claude/hooks/user-messages.py", ".claude/agents/logging.md",
     "sessions/protocols/task-completion.md", ".claude/state/daic-mode.json"}

GLOBAL_COMMANDS == {"/usr/local/bin/daic"}

CONFIG_FILE == "sessions/sessions-config.json"

ALL_COMPONENTS == COMPONENT_FILES \cup GLOBAL_COMMANDS \cup {CONFIG_FILE}

\* no installer or uninstaller process has run
NO_RUN ==
    [op |-> "none", pc |-> "done", components |-> {},
     global_commands |-> {}, settings_hooks |-> [exists |-> FALSE],
     before |-> NO_SETTINGS, after_install |-> FALSE,
     original |-> NO_SETTINGS, backup |-> "none",
     result |-> "none"]

----------------------------------------------------------------------------
(* Bounds and inputs *)

MaxChunks == 2     \* prompts are made of at most this many pieces
MaxLines == 2      \* transcript lines of the transcripts that are scanned
MaxEntries == 2    \* transcript lines appended during a monitored session
MaxRuns == 3       \* the run counters saturate here
MaxCount == 1      \* the usage statistics count up to here
NumProcs == 2      \* hook processes that may run at the same time

PROMPT_CHUNKS ==
    { <<"m", "a", "k", "e", " ", "i", "t", " ", "s", "o">>,
      <<"M", "A", "K", "E", " ", "I", "T", " ", "S", "O">>,
      <<",", " ">>,
      <<" ">>,
      <<"S", "T", "O", "P">>,
      <<"s", "t", "o", "p">>,
      <<"S", "I", "L", "E", "N", "C", "E">>,
      <<"/", "a", "d", "d", "-", "t", "r", "i", "g", "g", "e", "r", " ">>,
      <<"i", "t", "e", "r", "l", "o", "o", "p">>,
      <<"h", "e", "l", "p", " ", "m", "e">> }

RECURSIVE PromptsUpTo(_)
PromptsUpTo(n) ==
    IF n = 0 THEN {<<>>}
    ELSE LET shorter == PromptsUpTo(n - 1)
         IN  shorter \cup {c \o q : c \in PROMPT_CHUNKS, q \in shorter}

Prompts == PromptsUpTo(MaxChunks)

\* the prompts of a monitored session: the monitor does not read the prompt
MonitorPrompts == { <<>>, <<"S", "T", "O", "P">> }

Configs ==
    { <<>>,
      [api_mode |-> TRUE],
      [trigger_phrases |-> << <<"M", "a", "k", "e", " ", "I", "t", " ", "S", "o">> >>,
       task_detection |-> [enabled |-> FALSE]] }

NO_TASK == <<>>

TaskStates ==
    { [task |-> NO_TASK, branch |-> <<>>],
      [task |-> <<"m", "-", "f", "i", "x">>,
       branch |-> <<"f", "i", "x">>] }

TIMESTAMPS == { <<>>, <<"0", "9">>, <<"1", "0">>, <<"1", "1">> }

USAGES ==
    { NO_USAGE,
      [input_tokens |-> 5000],
      [input_tokens |-> 10000, cache_read_input_tokens |-> 100000,
       cache_creation_input_tokens |-> 10000],
      [input_tokens |-> 30000, cache_read_input_tokens |-> 100000,
       cache_creation_input_tokens |-> 20000] }

Entries ==
    { [json |-> TRUE, timestamp |-> t, isSidechain |-> s, usage |-> u] :
        t \in TIMESTAMPS, s \in BOOLEAN, u \in USAGES }
    \cup { MALFORMED_LINE }

RECURSIVE SeqsUpTo(_, _)
SeqsUpTo(S, n) ==
    IF n = 0 THEN {<<>>}
    ELSE LET shorter == SeqsUpTo(S, n - 1)
         IN  shorter \cup {Append(q, e) : q \in shorter, e \in S}

Transcripts == SeqsUpTo(Entries, MaxLines)

\* the lines a monitored session appends: main-chain and side-chain turns
\* at about 3%, at 75%, one token below 90%, at 90% and at 93.75% of the
\* limit
MonitorEntries ==
    { [json |-> TRUE, timestamp |-> t, isSidechain |-> s, usage |-> u] :
        t \in { <<"0", "9">>, <<"1", "0">> },
        s \in BOOLEAN,
        u \in { [input_tokens |-> 5000],
                [input_tokens |-> 10000, cache_read_input_tokens |-> 100000,
                 cache_creation_input_tokens |-> 10000],
                [input_tokens |-> 23999, cache_read_input_tokens |-> 100000,
                 cache_creation_input_tokens |-> 20000],
                [input_tokens |-> 24000, cache_read_input_tokens |-> 100000,
                 cache_creation_input_tokens |-> 20000],
                [input_tokens |-> 30000, cache_read_input_tokens |-> 100000,
                 cache_creation_input_tokens |-> 20000] } }

Saturate(n) == IF n < MaxRuns THEN n + 1 ELSE MaxRuns

\* the statistics file: absent until the discovery hook creates it
NO_STATS ==
    [exists |-> FALSE, commands_used |-> <<>>, agents_used |-> <<>>,
     daic_switches |-> 0, task_count |-> 0]
NEW_STATS ==
    [exists |-> TRUE, commands_used |-> <<>>, agents_used |-> <<>>,
     daic_switches |-> 0, task_count |-> 0]

stats_within_bound(stats) ==
    /\ stats.daic_switches <= MaxCount
    /\ stats.task_count <= MaxCount
    /\ \A k \in DOMAIN stats.commands_used : stats.commands_used[k] <= MaxCount
    /\ \A k \in DOMAIN stats.agents_used : stats.agents_used[k] <= MaxCount

----------------------------------------------------------------------------
(* The user-message hook *)

UserMessages(p, transcript_path) ==
    LET ran == transcript_path # "" /\ tiktoken
        most_recent == most_recent_entry(transcript)
        length == IF ran THEN get_context_length_from_transcript(transcript)
                  ELSE 0
        warning == context_warning(ran, length, warning_75_flag,
                                   warning_90_flag)
        current_mode == check_daic_mode_bool(daic_mode)
    IN  /\ last # "user_messages"
        /\ prompt' = p
        /\ mode_before' = daic_mode
        /\ monitor_ran' = ran
        /\ context_length' = length
        /\ selected_line' = IF ran THEN most_recent.index ELSE 0
        /\ warning_90_flag' = (warning_90_flag \/ warning = "90")
        /\ warning_75_flag' = (warning_75_flag \/ warning = "75")
        /\ daic_mode' = daic_mode_after(config, p, daic_mode)
        /\ context' =
               ultrathink_prefix(config, p)
               \o (IF warning = "90" THEN <<"warning_90">>
                   ELSE IF warning = "75" THEN <<"warning_75">> ELSE <<>>)
               \o daic_annotations(config, p, daic_mode)
               \o iterloop_annotation(p)
               \o protocol_annotations(config, p)
               \o add_smart_suggestions(config, p, current_task.task,
                                        current_mode)
        /\ runs90' = IF ran /\ usable_at_least(length, 90)
                     THEN Saturate(runs90) ELSE runs90
        /\ emitted90' = IF warning = "90" THEN Saturate(emitted90)
                        ELSE emitted90
        /\ last' = "user_messages"
        /\ usage_stats' = update_usage_stats_for_user_input(usage_stats,
                                                              config, p)
        /\ stats_within_bound(usage_stats')
        /\ UNCHANGED <<config, tiktoken, transcript, invocations,
                       current_task, projects, branches, head_branch,
                       result, installVars>>

\* the hook prints its additionalContext and exits: the variables of the
\* process are gone, the persisted records stay
HookExit ==
    /\ last = "user_messages"
    /\ prompt' = <<>>
    /\ mode_before' = daic_mode
    /\ context' = <<>>
    /\ context_length' = 0
    /\ monitor_ran' = FALSE
    /\ selected_line' = 0
    /\ last' = "exit"
    /\ UNCHANGED <<config, tiktoken, daic_mode, warning_75_flag,
                   warning_90_flag, transcript, usage_stats, runs90,
                   emitted90, invocations, trackerVars, installVars>>

\* the hook is started with input that is not JSON (empty or truncated
\* stdin): json.load raises at line 14, outside any try, and the process
\* ends with a traceback and exit status 1 before it has written anything
UserMessagesBadInput ==
    /\ last # "user_messages"
    /\ last' = "fault"
    /\ UNCHANGED <<hookVars, trackerVars, installVars>>

\* the transcript grows by one line
AppendEntry(e) ==
    /\ last # "user_messages"
    /\ Len(transcript) < MaxEntries
    /\ transcript' = Append(transcript, e)
    /\ last' = "append"
    /\ UNCHANGED <<config, tiktoken, daic_mode, warning_75_flag,
                   warning_90_flag, usage_stats, prompt, mode_before,
                   context, context_length, monitor_ran, selected_line,
                   runs90, emitted90, invocations, trackerVars, installVars>>

\* the session initializer clears both warning flags
SessionStart ==
    /\ last # "user_messages"
    /\ warning_75_flag' = FALSE
    /\ warning_90_flag' = FALSE
    /\ runs90' = 0
    /\ emitted90' = 0
    /\ last' = "session_start"
    /\ UNCHANGED <<config, tiktoken, daic_mode, transcript, usage_stats,
                   prompt, mode_before, context, context_length,
                   monitor_ran, selected_line, invocations, trackerVars,
                   installVars>>

\* get_context_length_from_transcript on its own
ScanTranscript ==
    /\ last = "init"
    /\ context_length' = get_context_length_from_transcript(transcript)
    /\ selected_line' = most_recent_entry(transcript).index
    /\ last' = "scan"
    /\ UNCHANGED <<config, tiktoken, daic_mode, warning_75_flag,
                   warning_90_flag, transcript, usage_stats, prompt,
                   mode_before, context, monitor_ran, runs90, emitted90,
                   invocations, trackerVars, installVars>>

Procs == 1..NumProcs

\* a hook process that is not running
IDLE == [pc |-> "idle", prompt |-> <<>>, length |-> 0, warning |-> "none"]

\* lines 13-104 in one process: the input is read, the transcript is
\* scanned and the two flag files are tested
HookCheck(i, p) ==
    LET length == IF tiktoken
                  THEN get_context_length_from_transcript(transcript)
                  ELSE 0
    IN  /\ invocations[i].pc = "idle"
        /\ invocations' =
               [invocations EXCEPT ![i] =
                   [pc |-> "checked", prompt |-> p, length |-> length,
                    warning |-> context_warning(tiktoken, length,
                                                warning_75_flag,
                                                warning_90_flag)]]
        /\ last' = "check"
        /\ UNCHANGED <<config, tiktoken, daic_mode, warning_75_flag,
                       warning_90_flag, transcript, usage_stats, prompt,
                       mode_before, context, context_length, monitor_ran,
                       selected_line, runs90, emitted90, trackerVars,
                       installVars>>

\* lines 104-320 in the same process: the warning decided on is written and
\* its flag file touched, then the rest of the hook runs to its exit
HookFinish(i) ==
    LET inv == invocations[i]
        current_mode == check_daic_mode_bool(daic_mode)
    IN  /\ inv.pc = "checked"
        /\ prompt' = inv.prompt
        /\ mode_before' = daic_mode
        /\ monitor_ran' = tiktoken
        /\ context_length' = inv.length
        /\ selected_line' = IF tiktoken
                            THEN most_recent_entry(transcript).index ELSE 0
        /\ warning_90_flag' = (warning_90_flag \/ inv.warning = "90")
        /\ warning_75_flag' = (warning_75_flag \/ inv.warning = "75")
        /\ daic_mode' = daic_mode_after(config, inv.prompt, daic_mode)
        /\ context' =
               ultrathink_prefix(config, inv.prompt)
               \o (IF inv.warning = "90" THEN <<"warning_90">>
                   ELSE IF inv.warning = "75" THEN <<"warning_75">>
                   ELSE <<>>)
               \o daic_annotations(config, inv.prompt, daic_mode)
               \o iterloop_annotation(inv.prompt)
               \o protocol_annotations(config, inv.prompt)
               \o add_smart_suggestions(config, inv.prompt,
                                        current_task.task, current_mode)
        /\ runs90' = IF tiktoken /\ usable_at_least(inv.length, 90)
                     THEN Saturate(runs90) ELSE runs90
        /\ emitted90' = IF inv.warning = "90" THEN Saturate(emitted90)
                        ELSE emitted90
        /\ usage_stats' = update_usage_stats_for_user_input(usage_stats,
                                                              config,
                                                              inv.prompt)
        /\ stats_within_bound(usage_stats')
        /\ invocations' = [invocations EXCEPT ![i] = IDLE]
        /\ last' = "finish"
        /\ UNCHANGED <<config, tiktoken, transcript, trackerVars, installVars>>

\* variant: the installer leaves the mode record at implementation
INSTALLED_MODE_IMPLEMENTATION == "implementation"

\* daic-mode.json as the installer writes it
INSTALLED_MODE == "discussion"

\* the state the installer leaves: discussion mode, no task, no flags
InitInstalled ==
    /\ daic_mode = INSTALLED_MODE
    /\ warning_75_flag = FALSE
    /\ warning_90_flag = FALSE
    /\ prompt = <<>>
    /\ mode_before = "discussion"
    /\ context = <<>>
    /\ context_length = 0
    /\ monitor_ran = FALSE
    /\ selected_line = 0
    /\ runs90 = 0
    /\ emitted90 = 0
    /\ invocations = [i \in Procs |-> IDLE]
    /\ last = "init"
    /\ projects = <<>>
    /\ branches = {"main"}
    /\ head_branch = "main"
    /\ result = [op |-> "none", status |-> "none", name |-> <<>>,
                 step |-> <<>>, steps |-> <<>>, next |-> <<>>,
                 warning |-> FALSE, repeated |-> FALSE]
    /\ settings = save_config_settings(NO_SETTINGS, FALSE)
    /\ components = ALL_COMPONENTS
    /\ run = NO_RUN

InitDetector ==
    /\ InitInstalled
    /\ usage_stats \in {NO_STATS, NEW_STATS}
    /\ config \in Configs
    /\ tiktoken \in BOOLEAN
    /\ current_task \in TaskStates
    /\ transcript = <<>>

NextDetector ==
    \/ \E p \in Prompts : \E tp \in {"", "transcript.jsonl"} :
           UserMessages(p, tp)
    \/ HookExit

SpecDetector == InitDetector /\ [][NextDetector]_vars

\* a session in which every kind of annotation can occur: the monitor is
\* available and the session starts empty or at 93.75% of the limit
ANNOTATION_CHUNKS ==
    { <<"m", "a", "k", "e", " ", "i", "t", " ", "s", "o">>,
      <<"S", "T", "O", "P">>,
      <<"i", "t", "e", "r", "l", "o", "o", "p">>,
      <<"c", "o", "m", "p", "a", "c", "t">>,
      <<"h", "e", "l", "p", " ", "m", "e">>,
      <<"/", "a", "d", "d", "-", "t", "r", "i", "g", "g", "e", "r", " ">>,
      <<" ">> }

RECURSIVE AnnotationPromptsUpTo(_)
AnnotationPromptsUpTo(n) ==
    IF n = 0 THEN {<<>>}
    ELSE LET shorter == AnnotationPromptsUpTo(n - 1)
         IN  shorter \cup {c \o q : c \in ANNOTATION_CHUNKS, q \in shorter}

AnnotationPrompts == AnnotationPromptsUpTo(MaxChunks)

AnnotationTranscripts ==
    { <<>>,
      << [json |-> TRUE, timestamp |-> <<"0", "9">>, isSidechain |-> FALSE,
          usage |-> [input_tokens |-> 30000,
                     cache_read_input_tokens |-> 100000,
                     cache_creation_input_tokens |-> 20000]] >> }

InitAnnotations ==
    /\ InitInstalled
    /\ usage_stats = NO_STATS
    /\ config \in { <<>>, [api_mode |-> TRUE] }
    /\ tiktoken = TRUE
    /\ current_task = [task |-> NO_TASK, branch |-> <<>>]
    /\ transcript \in AnnotationTranscripts

NextAnnotations ==
    \/ \E p \in AnnotationPrompts : \E tp \in {"", "transcript.jsonl"} :
           UserMessages(p, tp)
    \/ HookExit
    \/ SessionStart
    \/ UserMessagesBadInput

SpecAnnotations == InitAnnotations /\ [][NextAnnotations]_vars

\* hook processes of one session that run at the same time; the session
\* stands at about 3%, at 75% or at 93.75% of the limit
InterleavedTranscripts ==
    { << [json |-> TRUE, timestamp |-> <<"0", "9">>, isSidechain |-> FALSE,
          usage |-> u] >> :
        u \in { [input_tokens |-> 5000],
                [input_tokens |-> 10000, cache_read_input_tokens |-> 100000,
                 cache_creation_input_tokens |-> 10000],
                [input_tokens |-> 30000, cache_read_input_tokens |-> 100000,
                 cache_creation_input_tokens |-> 20000] } }

InitInterleaved ==
    /\ InitInstalled
    /\ usage_stats = NO_STATS
    /\ config = <<>>
    /\ tiktoken \in BOOLEAN
    /\ current_task = [task |-> NO_TASK, branch |-> <<>>]
    /\ transcript \in InterleavedTranscripts

NextInterleaved ==
    \/ \E i \in Procs : \E p \in MonitorPrompts : HookCheck(i, p)
    \/ \E i \in Procs : HookFinish(i)

SpecInterleaved == InitInterleaved /\ [][NextInterleaved]_vars

InitMonitor ==
    /\ InitInstalled
    /\ usage_stats = NO_STATS
    /\ config = <<>>
    /\ tiktoken \in BOOLEAN
    /\ current_task = [task |-> NO_TASK, branch |-> <<>>]
    /\ transcript = <<>>

NextMonitor ==
    \/ \E p \in MonitorPrompts : UserMessages(p, "transcript.jsonl")
    \/ HookExit
    \/ \E e \in MonitorEntries : AppendEntry(e)
    \/ SessionStart

SpecMonitor == InitMonitor /\ [][NextMonitor]_vars

InitTranscript ==
    /\ InitInstalled
    /\ usage_stats = NO_STATS
    /\ config = <<>>
    /\ tiktoken = TRUE
    /\ current_task = [task |-> NO_TASK, branch |-> <<>>]
    /\ transcript \in Transcripts

NextTranscript == ScanTranscript

SpecTranscript == InitTranscript /\ [][NextTranscript]_vars

----------------------------------------------------------------------------
(* Step tracker: dotted step ids *)

\* str.split(".")
RECURSIVE SplitDots(_, _)
SplitDots(s, part) ==
    IF s = <<>> THEN <<part>>
    ELSE IF Head(s) = "." THEN <<part>> \o SplitDots(Tail(s), <<>>)
    ELSE SplitDots(Tail(s), Append(part, Head(s)))

\* int() of a string of digits
RECURSIVE ToInt(_)
ToInt(digits) ==
    IF digits = <<>> THEN 0
    ELSE 10 * ToInt(SubSeq(digits, 1, Len(digits) - 1))
         + (Ord(digits[Len(digits)]) - 2)

\* the sort key of a step id: its components as integers
step_key(step_id) ==
    LET parts == SplitDots(step_id, <<>>)
    IN  [i \in 1..Len(parts) |-> ToInt(parts[i])]

\* comparison of two integer tuples, component by component
RECURSIVE TupleLess(_, _)
TupleLess(a, b) ==
    IF b = <<>> THEN FALSE
    ELSE IF a = <<>> THEN TRUE
    ELSE IF Head(a) # Head(b) THEN Head(a) < Head(b)
    ELSE TupleLess(Tail(a), Tail(b))

\* variant: step ids are compared as strings
step_before_as_strings(a, b) == StrGreater(b, a)

\* the order of two step ids
step_before(a, b) == TupleLess(step_key(a), step_key(b))

\* sorted(step ids, key = step_key)
RECURSIVE sorted_steps(_)
sorted_steps(ids) ==
    IF ids = {} THEN <<>>
    ELSE LET first == CHOOSE x \in ids :
                          \A y \in ids \ {x} : step_before(x, y)
         IN  <<first>> \o sorted_steps(ids \ {first})

\* str.replace(".", "-")
hyphenate(s) == [i \in 1..Len(s) |-> IF s[i] = "." THEN "-" ELSE s[i]]

\* the branch of a step
branch_name(name, step_id) == name \o <<"-">> \o hyphenate(step_id)

----------------------------------------------------------------------------
(* Step tracker: inputs *)

AUTH == <<"a", "u", "t", "h">>
GHOST == <<"g", "h", "o", "s", "t">>

\* the names `create` is called with, and the names the other commands get
CreatedNames == { AUTH }
NameInputs == { AUTH, GHOST }

\* the plans the parse step imports
PLANS ==
    { { <<"1">>, <<"2">>, <<"2", ".", "1">> },
      { <<"2">>, <<"2", ".", "9">>, <<"2", ".", "1", "0">> } }

\* the step ids the commands are called with; "7" is in no plan
StepInputs ==
    { <<"1">>, <<"2">>, <<"2", ".", "1">>, <<"2", ".", "9">>,
      <<"2", ".", "1", "0">>, <<"7">> }

NO_STEP == <<>>

TrackerOps == {"create", "parse", "list", "list_projects", "work",
               "complete", "status"}

\* the outcome of a command as the command line reports it
Outcome(op, status, name, step_id) ==
    [op |-> op, status |-> status, name |-> name, step |-> step_id,
     steps |-> <<>>, next |-> NO_STEP, warning |-> FALSE, repeated |-> FALSE]

NO_OUTCOME == Outcome("none", "none", <<>>, NO_STEP)

----------------------------------------------------------------------------
(* Step tracker: operations *)

\* completion_percentage, kept as the exact fraction num / den
percentage(completed, total) ==
    IF total = 0 THEN [num |-> 0, den |-> 1]
    ELSE [num |-> 100 * completed, den |-> total]

known_step(name, step_id) ==
    /\ name \in DOMAIN projects
    /\ step_id \in DOMAIN projects[name].step_details

\* the first incomplete step in dotted order, if any
next_step(step_details) ==
    LET open == {s \in DOMAIN step_details :
                    step_details[s].status # "completed"}
    IN  IF open = {} THEN NO_STEP ELSE sorted_steps(open)[1]

create(name) ==
    /\ last \notin TrackerOps
    /\ IF name \in DOMAIN projects
       THEN /\ result' = Outcome("create", "AlreadyExists", name, NO_STEP)
            /\ UNCHANGED projects
       ELSE /\ projects' =
                [n \in DOMAIN projects \cup {name} |->
                    IF n = name
                    THEN [status |-> "pending",
                          current_step |-> NO_STEP,
                          completed_steps |-> <<>>,
                          active_branch |-> head_branch,
                          total_steps |-> 0,
                          completion_percentage |-> percentage(0, 0),
                          step_details |-> <<>>]
                    ELSE projects[n]]
            /\ result' = Outcome("create", "ok", name, NO_STEP)
    /\ last' = "create"
    /\ UNCHANGED <<hookVars, installVars, current_task, branches, head_branch>>

\* parse(name): the plan parser fills in the steps of a project
parse(name, plan) ==
    /\ last \notin TrackerOps
    /\ IF name \notin DOMAIN projects
       THEN /\ result' = Outcome("parse", "NotFound", name, NO_STEP)
            /\ UNCHANGED projects
       ELSE /\ projects[name].total_steps = 0
            /\ projects' =
                [projects EXCEPT ![name] =
                    [@ EXCEPT !.step_details =
                                  [s \in plan |->
                                      [status |-> "pending",
                                       started_date |-> FALSE,
                                       completed_date |-> FALSE]],
                              !.total_steps = Cardinality(plan),
                              !.completion_percentage =
                                  percentage(Len(projects[name].completed_steps),
                                             Cardinality(plan))]]
            /\ result' = Outcome("parse", "ok", name, NO_STEP)
    /\ last' = "parse"
    /\ UNCHANGED <<hookVars, installVars, current_task, branches, head_branch>>

listSteps(name) ==
    /\ last \notin TrackerOps
    /\ result' =
        IF name \notin DOMAIN projects
        THEN Outcome("list", "NotFound", name, NO_STEP)
        ELSE [Outcome("list", "ok", name, NO_STEP) EXCEPT
                 !.steps = sorted_steps(DOMAIN projects[name].step_details)]
    /\ last' = "list"
    /\ UNCHANGED <<hookVars, installVars, projects, current_task, branches,
                   head_branch>>

status(name) ==
    /\ last \notin TrackerOps
    /\ result' =
        IF name \notin DOMAIN projects
        THEN Outcome("status", "NotFound", name, NO_STEP)
        ELSE LET details == projects[name].step_details
                 pending == {s \in DOMAIN details :
                                details[s].status \notin
                                    {"completed", "in-progress"}}
             IN  [Outcome("status", "ok", name, NO_STEP) EXCEPT
                     !.steps = SubSeq(sorted_steps(pending), 1,
                                      IF Cardinality(pending) < 5
                                      THEN Cardinality(pending) ELSE 5)]
    /\ last' = "status"
    /\ UNCHANGED <<hookVars, installVars, projects, current_task, branches,
                   head_branch>>

\* ensureBranch(name): check out the branch, creating it when it is not a
\* ref; a git failure changes nothing and is reported as a warning
ensureBranch(branch, git_ok) ==
    IF git_ok
    THEN /\ branches' = branches \cup {branch}
         /\ head_branch' = branch
    ELSE UNCHANGED <<branches, head_branch>>

\* variant: work restarts the step whatever its status
step_after_work_restart(detail) ==
    [detail EXCEPT !.status = "in-progress", !.started_date = TRUE]

\* the step record after work: a completed step is left as it is
step_after_work(detail) ==
    IF detail.status = "completed" THEN detail
    ELSE [detail EXCEPT !.status = "in-progress", !.started_date = TRUE]

\* variant: the project is updated before the step id is looked up
work_marks_unknown_step(name, step_id, git_ok) ==
    /\ last \notin TrackerOps
    /\ IF name \notin DOMAIN projects
       THEN /\ result' = Outcome("work", "NotFound", name, step_id)
            /\ UNCHANGED <<projects, current_task, branches, head_branch>>
       ELSE IF ~known_step(name, step_id)
       THEN /\ projects' = [projects EXCEPT ![name] =
                               [@ EXCEPT !.current_step = step_id,
                                         !.status = "active"]]
            /\ result' = Outcome("work", "NotFound", name, step_id)
            /\ UNCHANGED <<current_task, branches, head_branch>>
       ELSE /\ ensureBranch(branch_name(name, step_id), git_ok)
            /\ projects' =
                [projects EXCEPT ![name] =
                    [@ EXCEPT !.current_step = step_id,
                              !.status = "active",
                              !.step_details[step_id] =
                                  step_after_work(@)]]
            /\ current_task' =
                [task |-> name \o <<"-">> \o step_id,
                 branch |-> branch_name(name, step_id),
                 project |-> [project |-> name, step |-> step_id]]
            /\ result' = [Outcome("work", "ok", name, step_id) EXCEPT
                             !.warning = ~git_ok]
    /\ last' = "work"
    /\ UNCHANGED <<hookVars, installVars>>

work(name, step_id, git_ok) ==
    /\ last \notin TrackerOps
    /\ IF ~known_step(name, step_id)
       THEN /\ result' = Outcome("work", "NotFound", name, step_id)
            /\ UNCHANGED <<projects, current_task, branches, head_branch>>
       ELSE /\ ensureBranch(branch_name(name, step_id), git_ok)
            /\ projects' =
                [projects EXCEPT ![name] =
                    [@ EXCEPT !.current_step = step_id,
                              !.status = "active",
                              !.step_details[step_id] =
                                  step_after_work(@)]]
            /\ current_task' =
                [task |-> name \o <<"-">> \o step_id,
                 branch |-> branch_name(name, step_id),
                 project |-> [project |-> name, step |-> step_id]]
            /\ result' = [Outcome("work", "ok", name, step_id) EXCEPT
                             !.warning = ~git_ok]
    /\ last' = "work"
    /\ UNCHANGED <<hookVars, installVars>>

\* variant: the id is appended whether or not it is already in the list
completed_after_always_append(completed_steps, step_id) ==
    Append(completed_steps, step_id)

\* completed_steps after completing step_id: no second entry for an id
completed_after(completed_steps, step_id) ==
    IF \E i \in 1..Len(completed_steps) : completed_steps[i] = step_id
    THEN completed_steps
    ELSE Append(completed_steps, step_id)

\* variant: the project counts as completed once the step that was
\* completed last is the last step of the plan
project_status_after_last_id(old_status, completed_steps, step_details) ==
    IF \A s \in DOMAIN step_details :
           \/ s = completed_steps[Len(completed_steps)]
           \/ step_before(s, completed_steps[Len(completed_steps)])
    THEN "completed" ELSE old_status

\* the project status after a completion
project_status_after(old_status, completed_steps, step_details) ==
    IF /\ Cardinality(DOMAIN step_details) > 0
       /\ Len(completed_steps) = Cardinality(DOMAIN step_details)
    THEN "completed" ELSE old_status

complete(name, step_id) ==
    /\ last \notin TrackerOps
    /\ IF ~known_step(name, step_id)
       THEN /\ result' = Outcome("complete", "NotFound", name, step_id)
            /\ UNCHANGED projects
       ELSE LET project == projects[name]
                done == completed_after(project.completed_steps, step_id)
                details == [project.step_details EXCEPT
                               ![step_id] = [@ EXCEPT
                                   !.status = "completed",
                                   !.completed_date = TRUE]]
            IN  /\ projects' =
                    [projects EXCEPT ![name] =
                        [@ EXCEPT
                            !.step_details = details,
                            !.completed_steps = done,
                            !.completion_percentage =
                                percentage(Len(done), project.total_steps),
                            !.status = project_status_after(
                                           project.status, done, details)]]
                /\ result' =
                    [Outcome("complete", "ok", name, step_id) EXCEPT
                        !.next = next_step(details),
                        !.repeated =
                            (project.step_details[step_id].status
                                 = "completed")]
    /\ last' = "complete"
    /\ UNCHANGED <<hookVars, installVars, current_task, branches, head_branch>>

\* the command prints its outcome and exits
CommandExit ==
    /\ last \in TrackerOps
    /\ result' = NO_OUTCOME
    /\ last' = "exit"
    /\ UNCHANGED <<hookVars, installVars, projects, current_task, branches,
                   head_branch>>

InitTracker ==
    /\ InitInstalled
    /\ usage_stats = NO_STATS
    /\ config = <<>>
    /\ tiktoken = FALSE
    /\ current_task = [task |-> NO_TASK, branch |-> <<>>]
    /\ transcript = <<>>

NextTracker ==
    \/ \E name \in CreatedNames : create(name)
    \/ \E name \in NameInputs : \E plan \in PLANS : parse(name, plan)
    \/ \E name \in NameInputs : listSteps(name)
    \/ \E name \in NameInputs : status(name)
    \/ \E name \in NameInputs : \E s \in StepInputs : \E git_ok \in BOOLEAN :
           work(name, s, git_ok)
    \/ \E name \in NameInputs : \E s \in StepInputs : complete(name, s)
    \/ CommandExit

SpecTracker == InitTracker /\ [][NextTracker]_vars

----------------------------------------------------------------------------
(* Properties of the user-message hook *)

Range(s) == {s[i] : i \in DOMAIN s}

STOP_WORD == <<"S", "T", "O", "P">>
SILENCE_WORD == <<"S", "I", "L", "E", "N", "C", "E">>

HasEmergencyWord(p) == Contains(STOP_WORD, p) \/ Contains(SILENCE_WORD, p)

\* some configured phrase occurs in the message, letter case ignored
HasConfiguredPhrase(cfg, p) ==
    LET phrases == IF "trigger_phrases" \in DOMAIN cfg
                   THEN cfg.trigger_phrases ELSE DEFAULT_TRIGGER_PHRASES
    IN  \E k \in 1..Len(phrases) : Contains(Lower(phrases[k]), Lower(p))

\* C1: a message with a configured trigger phrase and the exact-case word
\* STOP or SILENCE, processed in discussion mode, leaves the persisted mode
\* at discussion
C1_StopBeatsTrigger ==
    (/\ last = "user_messages"
     /\ mode_before = "discussion"
     /\ HasConfiguredPhrase(config, prompt)
     /\ HasEmergencyWord(prompt))
    => daic_mode = "discussion"

C1_Witness ==
    /\ last = "user_messages"
    /\ mode_before = "discussion"
    /\ HasConfiguredPhrase(config, prompt)
    /\ HasEmergencyWord(prompt)
    /\ "implementation_mode" \in Range(context)
    /\ daic_mode = "discussion"

\* the case of C2: implementation mode, a message with a configured trigger
\* phrase, and no annotation of any other rule
C2_Case ==
    /\ last = "user_messages"
    /\ mode_before = "implementation"
    /\ HasConfiguredPhrase(config, prompt)
    /\ Range(context) \subseteq {"ultrathink", "implementation_mode"}

\* C2 as stated: in implementation mode a message with a configured trigger
\* phrase that matches no other rule emits no annotation and changes no mode
C2_NoAnnotationAtAll ==
    C2_Case => (context = <<>> /\ daic_mode = "implementation")

\* C2 as amended: in implementation mode such a message emits no
\* implementation annotation and changes no mode; the output is the
\* ultrathink prefix alone when api_mode is off and the message is not an
\* /add-trigger command, and empty otherwise
C2_OnlyUltrathink ==
    C2_Case =>
        /\ daic_mode = "implementation"
        /\ "implementation_mode" \notin Range(context)
        /\ context = IF \/ ("api_mode" \in DOMAIN config /\ config.api_mode)
                        \/ StartsWith(Strip(prompt), ADD_TRIGGER)
                     THEN <<>> ELSE <<"ultrathink">>

C2_Witness ==
    /\ C2_Case
    /\ context = <<"ultrathink">>
    /\ daic_mode = "implementation"

\* C3: while the flags are not cleared, the 90% warning has been emitted
\* exactly once as soon as the monitor has run at or above 90%, however
\* often it runs again
C3_Warn90Once ==
    /\ runs90 >= 1 => emitted90 = 1
    /\ runs90 = 0 => emitted90 = 0

C3_Witness ==
    /\ runs90 >= 2
    /\ emitted90 = 1
    /\ last = "user_messages"
    /\ context_length = 150000

\* total of a usage record, for the properties
Tokens(u) ==
    (IF "input_tokens" \in DOMAIN u THEN u.input_tokens ELSE 0)
    + (IF "cache_read_input_tokens" \in DOMAIN u
       THEN u.cache_read_input_tokens ELSE 0)
    + (IF "cache_creation_input_tokens" \in DOMAIN u
       THEN u.cache_creation_input_tokens ELSE 0)

\* the main-chain lines with a timestamp and usage data
MainUsageLines(lines) ==
    {i \in 1..Len(lines) :
        /\ lines[i].json
        /\ ~lines[i].isSidechain
        /\ lines[i].usage # <<>>
        /\ lines[i].timestamp # <<>>}

\* the chronological value of a two-digit timestamp
TsValue(t) == 10 * (Ord(t[1]) - 2) + (Ord(t[2]) - 2)

\* C4: a side-chain line is never the selected usage snapshot, and when every
\* main-chain line is below a threshold no warning of that threshold is
\* emitted, whatever the side-chain lines hold
C4_SidechainIgnored ==
    (last = "user_messages" /\ monitor_ran) =>
        /\ selected_line # 0 => ~transcript[selected_line].isSidechain
        /\ (\A i \in MainUsageLines(transcript) :
                Tokens(transcript[i].usage) * 100 < 90 * 160000)
           => "warning_90" \notin Range(context)
        /\ (\A i \in MainUsageLines(transcript) :
                Tokens(transcript[i].usage) * 100 < 75 * 160000)
           => (Range(context) \cap {"warning_75", "warning_90"} = {})

\* a side-chain line at 93.75% with the latest timestamp, a main-chain line
\* at 3%, and the monitor ran and chose the main-chain line without warning
C4_Witness ==
    /\ last = "user_messages"
    /\ monitor_ran
    /\ selected_line # 0
    /\ \E i \in 1..Len(transcript) :
           /\ transcript[i].isSidechain
           /\ Tokens(transcript[i].usage) = 150000
           /\ TsValue(transcript[i].timestamp)
                  > TsValue(transcript[selected_line].timestamp)
    /\ context_length = 5000
    /\ Range(context) \cap {"warning_75", "warning_90"} = {}

\* C5: the context length is the counter sum of one main-chain line that has
\* the latest timestamp among the main-chain lines with usage data, wherever
\* it stands in the log, and 0 when there is no such line
C5_LatestSnapshot ==
    last = "scan" =>
        IF MainUsageLines(transcript) = {}
        THEN context_length = 0 /\ selected_line = 0
        ELSE /\ selected_line \in MainUsageLines(transcript)
             /\ \A i \in MainUsageLines(transcript) :
                    TsValue(transcript[i].timestamp)
                        <= TsValue(transcript[selected_line].timestamp)
             /\ context_length = Tokens(transcript[selected_line].usage)

\* the latest line is the first of two lines with different totals
C5_Witness ==
    /\ last = "scan"
    /\ Len(transcript) = 2
    /\ MainUsageLines(transcript) = {1, 2}
    /\ selected_line = 1
    /\ context_length = 150000
    /\ Tokens(transcript[2].usage) = 120000

\* C10: in every mode and for every message the emergency-stop annotation is
\* emitted exactly when the raw message contains STOP or SILENCE in that
\* letter case, the mode is then discussion, and without such a word an
\* implementation mode is not forced back
C10_EmergencyStopExactCase ==
    last = "user_messages" =>
        /\ ("emergency_stop" \in Range(context)) <=> HasEmergencyWord(prompt)
        /\ HasEmergencyWord(prompt) => daic_mode = "discussion"
        /\ (~HasEmergencyWord(prompt) /\ mode_before = "implementation")
           => daic_mode = "implementation"

\* an /add-trigger command that carries STOP, processed in implementation mode
C10_Witness ==
    /\ last = "user_messages"
    /\ mode_before = "implementation"
    /\ StartsWith(Strip(prompt), ADD_TRIGGER)
    /\ Contains(STOP_WORD, prompt)
    /\ "emergency_stop" \in Range(context)
    /\ daic_mode = "discussion"

----------------------------------------------------------------------------
(* Properties of the step tracker *)

CompletedSet(project) ==
    {project.completed_steps[i] : i \in 1..Len(project.completed_steps)}

\* C6: for a project with steps, completion_percentage is
\* 100 * |completed_steps| / total_steps, and after a complete call the
\* project is completed exactly when every step is in completed_steps
C6_PercentageAndStatus ==
    \A n \in DOMAIN projects :
        LET project == projects[n] IN
        project.total_steps > 0 =>
            /\ project.completion_percentage.num * project.total_steps
                   = 100 * Cardinality(CompletedSet(project))
                         * project.completion_percentage.den
            /\ (last = "complete" /\ result.status = "ok" /\ result.name = n)
               => (project.status = "completed"
                   <=> Cardinality(CompletedSet(project))
                           = project.total_steps)

\* two of three steps completed, the project still active
C6_Witness ==
    /\ last = "complete"
    /\ result.status = "ok"
    /\ projects[result.name].total_steps = 3
    /\ Cardinality(CompletedSet(projects[result.name])) = 2
    /\ projects[result.name].completion_percentage = [num |-> 200, den |-> 3]
    /\ projects[result.name].status = "active"

\* the dotted order of the step ids of the plans, written out
DOTTED_ORDER ==
    << <<"1">>, <<"2">>, <<"2", ".", "1">>, <<"2", ".", "9">>,
       <<"2", ".", "1", "0">> >>

Rank(step_id) == CHOOSE i \in 1..Len(DOTTED_ORDER) : DOTTED_ORDER[i] = step_id

\* C7: listSteps lists the steps of a project in integer-tuple order, "2.9"
\* before "2.10", and complete suggests the first incomplete step of that
\* same order
C7_DottedOrder ==
    /\ (last = "list" /\ result.status = "ok") =>
           /\ {result.steps[i] : i \in 1..Len(result.steps)}
                  = DOMAIN projects[result.name].step_details
           /\ \A i, j \in 1..Len(result.steps) :
                  i < j => Rank(result.steps[i]) < Rank(result.steps[j])
    /\ (last = "complete" /\ result.status = "ok") =>
           LET details == projects[result.name].step_details
               open == {s \in DOMAIN details : details[s].status # "completed"}
           IN  IF open = {} THEN result.next = <<>>
               ELSE /\ result.next \in open
                    /\ \A s \in open : Rank(result.next) <= Rank(s)

\* steps 2, 2.9 and 2.10 with only step 2 completed: 2.9 is suggested
C7_Witness ==
    /\ last = "complete"
    /\ result.status = "ok"
    /\ DOMAIN projects[result.name].step_details
           = { <<"2">>, <<"2", ".", "9">>, <<"2", ".", "1", "0">> }
    /\ projects[result.name].completed_steps = << <<"2">> >>
    /\ result.next = <<"2", ".", "9">>

\* C8: completing a step that is already in completed_steps leaves
\* completed_steps and completion_percentage as they were, and
\* completed_steps never holds an id twice
C8_CompleteIdempotent ==
    [][(last' = "complete" /\ result'.status = "ok") =>
           LET n == result'.name IN
           /\ Len(projects'[n].completed_steps)
                  = Cardinality(CompletedSet(projects'[n]))
           /\ result'.step \in CompletedSet(projects[n]) =>
                  /\ projects'[n].completed_steps = projects[n].completed_steps
                  /\ projects'[n].completion_percentage
                         = projects[n].completion_percentage]_vars

\* a second complete call on a step, one of three steps being completed
C8_Witness ==
    /\ last = "complete"
    /\ result.status = "ok"
    /\ result.repeated
    /\ Len(projects[result.name].completed_steps) = 1
    /\ projects[result.name].completion_percentage = [num |-> 100, den |-> 3]

\* C9: work on a project or step id that does not exist reports NotFound and
\* changes neither the project records, nor the current-task record, nor the
\* branches
C9_WorkUnknownUnchanged ==
    [][(/\ last' = "work"
        /\ ~(/\ result'.name \in DOMAIN projects
             /\ result'.step \in DOMAIN projects[result'.name].step_details))
       => /\ result'.status = "NotFound"
          /\ projects' = projects
          /\ current_task' = current_task
          /\ branches' = branches
          /\ head_branch' = head_branch]_vars

\* work on step 7 of an active project that has no step 7
C9_Witness ==
    /\ last = "work"
    /\ result.status = "NotFound"
    /\ result.name \in DOMAIN projects
    /\ result.step = <<"7">>
    /\ projects[result.name].status = "active"
    /\ projects[result.name].current_step # <<"7">>

\* C11: in discussion mode, for a message that is not an /add-trigger
\* command, the implementation annotation is emitted exactly when some
\* configured phrase occurs in the message with letter case ignored, and,
\* unless an emergency word resets it, the mode is then implementation
C11_TriggerAnyCase ==
    (/\ last = "user_messages"
     /\ mode_before = "discussion"
     /\ ~StartsWith(Strip(prompt), ADD_TRIGGER))
    => /\ ("implementation_mode" \in Range(context))
              <=> HasConfiguredPhrase(config, prompt)
       /\ ~HasEmergencyWord(prompt) =>
              (daic_mode = "implementation"
                  <=> HasConfiguredPhrase(config, prompt))

\* C12: a message that is an /add-trigger command never emits the
\* implementation annotation and never takes the mode from discussion to
\* implementation
C12_AddTriggerNeverTriggers ==
    (last = "user_messages" /\ StartsWith(Strip(prompt), ADD_TRIGGER)) =>
        /\ "implementation_mode" \notin Range(context)
        /\ mode_before = "discussion" => daic_mode = "discussion"

\* the command "/add-trigger make it so" processed in discussion mode with
\* the default phrases
C12_Witness ==
    /\ last = "user_messages"
    /\ mode_before = "discussion"
    /\ StartsWith(prompt, ADD_TRIGGER)
    /\ HasConfiguredPhrase(config, prompt)
    /\ "trigger_phrases" \notin DOMAIN config
    /\ "implementation_mode" \notin Range(context)
    /\ daic_mode = "discussion"

WARNING_TAGS == {"warning_75", "warning_90"}

TIP_TAGS ==
    {"tip_create_task", "tip_discussion_mode", "help_suggestion",
     "tip_context_gathering", "feature_suggestion", "tip_memory_bank",
     "tip_status", "tip_build_project", "tip_code_review"}

\* some phrase of a topical detector occurs in the message, case ignored
HasTopicalPhrase(p) ==
    \/ AnyIn(COMPACTION_PHRASES, Lower(p))
    \/ AnyIn(COMPLETION_PHRASES, Lower(p))
    \/ AnyIn(CREATION_PHRASES, Lower(p))
    \/ AnyIn(SWITCHING_PHRASES, Lower(p))
    \/ AnyIn(task_patterns, Lower(p))

\* no emergency word, no trigger phrase, no topical phrase, no "iterloop"
NoRuleMatches(cfg, p) ==
    /\ ~HasEmergencyWord(p)
    /\ ~HasConfiguredPhrase(cfg, p)
    /\ ~HasTopicalPhrase(p)
    /\ ~Contains(ITERLOOP, Lower(p))

IsRuleTag(t) == t \notin WARNING_TAGS \cup TIP_TAGS

\* C13 as stated: a message for which no rule matches yields an empty
\* output string and leaves the mode unchanged
C13_EmptyOutput ==
    (last = "user_messages" /\ NoRuleMatches(config, prompt)) =>
        /\ context = <<>>
        /\ daic_mode = mode_before

\* C13 amended: a message for which no rule matches leaves the mode
\* unchanged and gets no rule annotation; apart from a context warning and
\* smart suggestions the output is the ultrathink prefix, which is absent
\* only with api_mode set or for an /add-trigger command
C13_OnlyPrefix ==
    (last = "user_messages" /\ NoRuleMatches(config, prompt)) =>
        /\ daic_mode = mode_before
        /\ SelectSeq(context, IsRuleTag) =
               IF Get(config, "api_mode", FALSE)
                  \/ StartsWith(Strip(prompt), ADD_TRIGGER)
               THEN <<>> ELSE <<"ultrathink">>

C13_Witness ==
    /\ last = "user_messages"
    /\ NoRuleMatches(config, prompt)
    /\ prompt # <<>>
    /\ mode_before = "implementation"
    /\ daic_mode = "implementation"
    /\ context = <<"ultrathink", "warning_90">>

TOPICAL_TAGS ==
    {"context_compaction", "task_completion", "task_creation",
     "task_startup", "task_detection"}

\* the position of an annotation in the order the claim states
ClaimedRank(t) ==
    IF t = "emergency_stop" THEN 1
    ELSE IF t = "implementation_mode" THEN 2
    ELSE IF t \in TOPICAL_TAGS THEN 3
    ELSE 4

IsClaimedTag(t) ==
    t \in {"emergency_stop", "implementation_mode", "iterloop"}
             \cup TOPICAL_TAGS

\* the position of an annotation in the order of the source
SourceRank(t) ==
    IF t = "ultrathink" THEN 0
    ELSE IF t \in WARNING_TAGS THEN 1
    ELSE IF t = "implementation_mode" THEN 2
    ELSE IF t = "emergency_stop" THEN 3
    ELSE IF t = "iterloop" THEN 4
    ELSE IF t = "context_compaction" THEN 5
    ELSE IF t = "task_completion" THEN 6
    ELSE IF t = "task_creation" THEN 7
    ELSE IF t = "task_startup" THEN 8
    ELSE IF t = "task_detection" THEN 9
    ELSE 10

\* C14 as stated: the rule annotations appear with emergency-stop first,
\* then the implementation trigger, then the topical detectors, then the
\* iteration loop
C14_ClaimedOrder ==
    last = "user_messages" =>
        LET rules == SelectSeq(context, IsClaimedTag)
        IN  \A i \in 1..(Len(rules) - 1) :
                ClaimedRank(rules[i]) <= ClaimedRank(rules[i + 1])

\* C14 amended: the annotations appear in source order (prefix, context
\* warning, implementation trigger, emergency stop, iteration loop, topical
\* detectors, suggestions), each at most once, and the emergency-stop,
\* iteration-loop and compaction rules fire whenever their text matches,
\* whatever else matched
C14_SourceOrder ==
    last = "user_messages" =>
        /\ \A i \in 1..(Len(context) - 1) :
               /\ SourceRank(context[i]) <= SourceRank(context[i + 1])
               /\ SourceRank(context[i]) < 10
                      => SourceRank(context[i]) < SourceRank(context[i + 1])
        /\ "emergency_stop" \in Range(context) <=> HasEmergencyWord(prompt)
        /\ "iterloop" \in Range(context)
               <=> Contains(ITERLOOP, Lower(prompt))
        /\ "context_compaction" \in Range(context)
               <=> AnyIn(COMPACTION_PHRASES, Lower(prompt))

C14_Witness ==
    /\ last = "user_messages"
    /\ context = <<"ultrathink", "warning_90", "implementation_mode",
                   "emergency_stop">>
    /\ daic_mode = "discussion"

\* C15: a monitor invocation at 144,000 tokens or more with warned90 unset
\* emits the critical warning and sets warned90; otherwise at 120,000 tokens
\* or more with warned75 unset it emits the low-context warning and sets
\* warned75; otherwise it emits no warning and changes no flag
C15_MonitorStep ==
    [][(last' = "user_messages" /\ monitor_ran') =>
          IF context_length' >= 144000 /\ ~warning_90_flag
          THEN /\ "warning_90" \in Range(context')
               /\ "warning_75" \notin Range(context')
               /\ warning_90_flag'
               /\ warning_75_flag' = warning_75_flag
          ELSE IF context_length' >= 120000 /\ ~warning_75_flag
          THEN /\ "warning_75" \in Range(context')
               /\ "warning_90" \notin Range(context')
               /\ warning_75_flag'
               /\ warning_90_flag' = warning_90_flag
          ELSE /\ Range(context') \cap WARNING_TAGS = {}
               /\ warning_75_flag' = warning_75_flag
               /\ warning_90_flag' = warning_90_flag]_vars

C15_Witness ==
    /\ last = "user_messages"
    /\ monitor_ran
    /\ context_length = 144000
    /\ "warning_90" \in Range(context)
    /\ warning_90_flag
    /\ ~warning_75_flag

\* C16: the 90% warning is emitted at most once while the flags are not
\* cleared, also when hook invocations of the session interleave
C16_AtMostOnceInterleaved == emitted90 <= 1

\* C17: the persisted mode record is always one of discussion and
\* implementation, and after installation, before any message is processed,
\* it is discussion
C17_ModeRecord ==
    /\ daic_mode \in {"discussion", "implementation"}
    /\ last = "init" => daic_mode = "discussion"

C17_Witness ==
    /\ last = "user_messages"
    /\ mode_before = "discussion"
    /\ daic_mode = "implementation"
    /\ "implementation_mode" \in Range(context)

\* C18: no invocation of the user-message hook ends in an unhandled fault
C18_NeverFaults == last # "fault"

StepRank(st) ==
    IF st = "pending" THEN 0 ELSE IF st = "in-progress" THEN 1 ELSE 2

ProjectRank(st) ==
    IF st = "pending" THEN 0 ELSE IF st = "active" THEN 1 ELSE 2

\* C19: no work or complete operation moves a step backward along
\* pending, in-progress, completed; a completed step stays completed, also
\* when work is called on it
C19_StepForward ==
    [][last' \in {"work", "complete"} =>
          \A n \in DOMAIN projects :
              /\ n \in DOMAIN projects'
              /\ \A s \in DOMAIN projects[n].step_details :
                     /\ s \in DOMAIN projects'[n].step_details
                     /\ projects'[n].step_details[s].status
                            \in {"pending", "in-progress", "completed"}
                     /\ StepRank(projects'[n].step_details[s].status)
                            >= StepRank(projects[n].step_details[s].status)]_vars

\* work has been called on a completed step
C19_Witness ==
    /\ last = "work"
    /\ result.status = "ok"
    /\ projects[result.name].step_details[result.step].status = "completed"
    /\ projects[result.name].current_step = result.step

\* C20: no work or complete operation moves a project's status backward
\* along pending, active, completed; a completed project stays completed
C20_ProjectForward ==
    [][last' \in {"work", "complete"} =>
          \A n \in DOMAIN projects :
              /\ n \in DOMAIN projects'
              /\ ProjectRank(projects'[n].status)
                     >= ProjectRank(projects[n].status)]_vars

----------------------------------------------------------------------------
(* Uninstaller *)

\* the hook processes and the step tracker are at rest
InitAtRest ==
    /\ warning_75_flag = FALSE
    /\ warning_90_flag = FALSE
    /\ prompt = <<>>
    /\ mode_before = daic_mode
    /\ context = <<>>
    /\ context_length = 0
    /\ monitor_ran = FALSE
    /\ selected_line = 0
    /\ runs90 = 0
    /\ emitted90 = 0
    /\ invocations = [i \in Procs |-> IDLE]
    /\ usage_stats = NO_STATS
    /\ tiktoken = FALSE
    /\ transcript = <<>>
    /\ last = "init"
    /\ projects = <<>>
    /\ branches = {"main"}
    /\ head_branch = "main"
    /\ result = NO_OUTCOME
    /\ run = NO_RUN

\* the detected paths _remove_all_components goes through
detected_paths(r) == r.components \cup r.global_commands \cup {CONFIG_FILE}

\* SessionsUninstaller.__init__ and the first menu: the installation is
\* detected; without a configuration file the menu returns "exit"
UninstallerStart ==
    /\ run.pc = "done"
    /\ run' = IF CONFIG_FILE \in components
              THEN [NO_RUN EXCEPT
                       !.op = "uninstaller",
                       !.pc = "menu",
                       !.components = COMPONENT_FILES \cap components,
                       !.global_commands = GLOBAL_COMMANDS \cap components,
                       !.settings_hooks = scan_settings_hooks(settings),
                       !.before = settings]
              ELSE [NO_RUN EXCEPT !.op = "uninstaller"]
    /\ last' = "uninstaller"
    /\ UNCHANGED <<hookVars, trackerVars, settings, components>>

\* menu choice 5: the preview is printed, then the menu is shown again
perform_dry_run ==
    /\ run.pc = "menu"
    /\ last' = "dry_run"
    /\ UNCHANGED <<hookVars, trackerVars, installVars>>

\* menu choice 6
ChooseExit ==
    /\ run.pc = "menu"
    /\ run' = [run EXCEPT !.pc = "done"]
    /\ last' = "exit"
    /\ UNCHANGED <<hookVars, trackerVars, settings, components>>

\* menu choice 1: perform_complete_uninstall up to its first question
ChooseComplete ==
    /\ run.pc = "menu"
    /\ run' = [run EXCEPT !.pc = "ask_backup"]
    /\ last' = "complete_uninstall"
    /\ UNCHANGED <<hookVars, trackerVars, settings, components>>

\* "Create backup before uninstalling?": yes runs create_backup, which may
\* fail
AnswerCreateBackup(answer, backup_ok) ==
    /\ run.pc = "ask_backup"
    /\ run' = IF ~answer THEN [run EXCEPT !.pc = "ask_no_backup"]
              ELSE IF backup_ok
              THEN [run EXCEPT !.pc = "confirm", !.backup = "created"]
              ELSE [run EXCEPT !.pc = "backup_failed", !.backup = "failed"]
    /\ last' = "answer_backup"
    /\ UNCHANGED <<hookVars, trackerVars, settings, components>>

\* "Are you sure you want to proceed without backup?"
AnswerWithoutBackup(answer) ==
    /\ run.pc = "ask_no_backup"
    /\ run' = IF answer THEN [run EXCEPT !.pc = "confirm"]
              ELSE [run EXCEPT !.pc = "done", !.result = "False"]
    /\ last' = "answer_without_backup"
    /\ UNCHANGED <<hookVars, trackerVars, settings, components>>

\* variant: the uninstall goes on whatever the answer is
AnswerContinue_ignored(answer) ==
    /\ run.pc = "backup_failed"
    /\ components' = components \ detected_paths(run)
    /\ settings' = remove_settings_hooks(settings, run.settings_hooks)
    /\ run' = [run EXCEPT !.pc = "done", !.result = "True"]
    /\ last' = "answer_continue"
    /\ UNCHANGED <<hookVars, trackerVars>>

\* "Continue uninstall without backup?" after a failed backup
AnswerContinue(answer) ==
    /\ run.pc = "backup_failed"
    /\ run' = IF answer THEN [run EXCEPT !.pc = "confirm"]
              ELSE [run EXCEPT !.pc = "done", !.result = "False"]
    /\ last' = "answer_continue"
    /\ UNCHANGED <<hookVars, trackerVars, settings, components>>

\* "Proceed with complete uninstall?" answered no
DeclineProceed ==
    /\ run.pc = "confirm"
    /\ run' = [run EXCEPT !.pc = "done", !.result = "False"]
    /\ last' = "decline"
    /\ UNCHANGED <<hookVars, trackerVars, settings, components>>

\* "Proceed with complete uninstall?" answered yes: _remove_all_components.
\* failing holds the paths whose removal raises; each failure is counted and
\* the loop goes on. A failure of _remove_settings_hooks is only printed.
remove_all_components(failing, settings_fails) ==
    LET present == detected_paths(run) \cap components
        errors == present \cap failing
    IN  /\ run.pc = "confirm"
        /\ components' = components \ (present \ failing)
        /\ settings' = IF settings_fails THEN settings
                       ELSE remove_settings_hooks(settings,
                                                  run.settings_hooks)
        /\ run' = [run EXCEPT
                      !.pc = "done",
                      !.result = IF errors = {} THEN "True" ELSE "False"]
        /\ last' = "remove_all_components"
        /\ UNCHANGED <<hookVars, trackerVars>>

\* installations the uninstaller is run on
InstalledSettings ==
    { save_config_settings(NO_SETTINGS, FALSE),
      save_config_settings(NO_SETTINGS, TRUE),
      NO_SETTINGS }

InitUninstaller ==
    /\ daic_mode = INSTALLED_MODE
    /\ InitAtRest
    /\ config = Put(DEFAULT_CONFIG, "version", CURRENT_VERSION)
    /\ current_task = INSTALLED_TASK
    /\ settings \in InstalledSettings
    /\ components \in {c \in SUBSET ALL_COMPONENTS : CONFIG_FILE \in c}

NextUninstaller ==
    \/ UninstallerStart
    \/ perform_dry_run
    \/ ChooseExit
    \/ ChooseComplete
    \/ \E answer \in BOOLEAN : \E backup_ok \in BOOLEAN :
           AnswerCreateBackup(answer, backup_ok)
    \/ \E answer \in BOOLEAN : AnswerWithoutBackup(answer)
    \/ \E answer \in BOOLEAN : AnswerContinue(answer)
    \/ DeclineProceed
    \/ \E failing \in SUBSET ALL_COMPONENTS : \E settings_fails \in BOOLEAN :
           remove_all_components(failing, settings_fails)

SpecUninstaller == InitUninstaller /\ [][NextUninstaller]_vars

----------------------------------------------------------------------------
(* Installer: save_config, and the settings cleaning of the uninstaller *)

MaxHookEntries == 1   \* entries per hook type of the user's settings.json
MaxInstalled == 3     \* save_config runs on hook types of at most this size

\* a hook the user registered
USER_HOOK == [type |-> "command", command |-> <<"l", "i", "n", "t">>]

\* hook entries found in settings files before cc-sessions touches them: the
\* user's own, a matcher without hooks, and entries of an earlier or partial
\* registration of cc-sessions hooks
UserEntries ==
    { [hooks |-> << USER_HOOK >>],
      [matcher |-> "Bash"],
      [hooks |-> << command_hook(USER_MESSAGES) >>],
      [matcher |-> "Bash",
       hooks |-> << USER_HOOK, command_hook(SESSIONS_ENFORCE) >>] }

RECURSIVE EntryLists(_)
EntryLists(n) ==
    IF n = 0 THEN { <<>> }
    ELSE LET shorter == EntryLists(n - 1)
         IN  shorter \cup
             {Append(entries, e) :
                 entries \in {x \in shorter : Len(x) = n - 1},
                 e \in UserEntries}

\* hooks sections: each hook type is absent or holds a non-empty entry list
HookSections ==
    LET lists == EntryLists(MaxHookEntries)
        types == <<"UserPromptSubmit", "PreToolUse", "Stop">>
    IN  { [t \in {types[i] : i \in {j \in 1..3 : c[j] # <<>>}} |->
              c[CHOOSE i \in 1..3 : types[i] = t]] :
          c \in [1..3 -> lists] }

\* settings files the installer and the uninstaller meet
InitialSettings ==
    LET base == [model |-> "opus"]
        with_hooks == {base} \cup {Put(base, "hooks", h) : h \in HookSections}
    IN  {NO_SETTINGS} \cup with_hooks
        \cup {Put(s, "statusLine", l) :
                 s \in with_hooks,
                 l \in {[type |-> "command",
                         command |-> <<"m", "y", "-", "l", "i", "n", "e">>],
                        sessions_statusline}}

\* save_config of an installer whose configuration is self_config: the
\* configuration with the package version, settings.json with the merged
\* hooks, and the two state files
save_config(self_config, statusline_installed) ==
    /\ config' = Put(self_config, "version", CURRENT_VERSION)
    /\ settings' = save_config_settings(settings, statusline_installed)
    /\ daic_mode' = "discussion"
    /\ current_task' = INSTALLED_TASK

\* a fresh installation saves its configuration
SaveConfig(statusline_installed) ==
    /\ run.pc = "done"
    /\ "hooks" \in DOMAIN settings =>
           \A t \in DOMAIN settings.hooks :
               Len(settings.hooks[t]) <= MaxInstalled
    /\ save_config(DEFAULT_CONFIG, statusline_installed)
    /\ components' = components \cup {CONFIG_FILE,
                                      ".claude/state/daic-mode.json"}
    /\ run' = [NO_RUN EXCEPT !.op = "installer", !.before = settings]
    /\ last' = "save_config"
    /\ UNCHANGED <<tiktoken, warning_75_flag, warning_90_flag, transcript,
                   usage_stats, prompt, mode_before, context, context_length,
                   monitor_ran, selected_line, runs90, emitted90, invocations,
                   projects, branches, head_branch, result>>

\* the uninstaller scans settings.json and cleans it; the run remembers
\* whether it follows a save_config and the settings that one started from
RemoveSettingsHooks ==
    /\ run.pc = "done"
    /\ settings' = remove_settings_hooks(settings,
                                         scan_settings_hooks(settings))
    /\ run' = [NO_RUN EXCEPT
                  !.op = "uninstaller",
                  !.settings_hooks = scan_settings_hooks(settings),
                  !.before = settings,
                  !.after_install = (last = "save_config"),
                  !.original = run.before]
    /\ last' = "remove_settings_hooks"
    /\ UNCHANGED <<hookVars, trackerVars, components>>

InitSettings ==
    /\ config = Put(DEFAULT_CONFIG, "version", CURRENT_VERSION)
    /\ daic_mode = INSTALLED_MODE
    /\ current_task = INSTALLED_TASK
    /\ InitAtRest
    /\ settings \in InitialSettings
    /\ components = ALL_COMPONENTS

NextSettings ==
    \/ \E statusline_installed \in BOOLEAN : SaveConfig(statusline_installed)
    \/ RemoveSettingsHooks

SpecSettings == InitSettings /\ [][NextSettings]_vars

----------------------------------------------------------------------------
(* Installer: update of an existing installation *)

\* sessions-config.json files of existing installations: written by this or
\* an earlier version, with the user's changes
ExistingConfigs ==
    { LET named == Put(Put(DEFAULT_CONFIG, "version", version),
                       "developer_name", name)
          governed == IF governance = "absent"
                      THEN Del(named, "document_governance")
                      ELSE IF governance = "user"
                      THEN Put(named, "document_governance",
                               [DEFAULT_CONFIG.document_governance
                                   EXCEPT !.enabled = TRUE])
                      ELSE named
      IN  IF api_mode THEN Put(governed, "api_mode", TRUE) ELSE governed :
      version \in {"0.2.18", CURRENT_VERSION},
      name \in {DEFAULT_CONFIG.developer_name, <<"a", "l", "i", "c", "e">>},
      governance \in {"default", "user", "absent"},
      api_mode \in BOOLEAN }

\* run_update: the existing configuration is loaded into the installer's
\* configuration, the files are copied, and save_config writes the
\* configuration, the settings and the state files; an exception raised by
\* copy_files ends the update before anything is saved
RunUpdate(copy_ok) ==
    /\ run.pc = "done"
    /\ CONFIG_FILE \in components
    /\ IF copy_ok
       THEN /\ save_config(load_existing_config(DEFAULT_CONFIG, config),
                            FALSE)
            /\ components' = ALL_COMPONENTS
       ELSE UNCHANGED <<config, settings, daic_mode, current_task,
                        components>>
    /\ run' = [NO_RUN EXCEPT
                  !.op = "update",
                  !.before = settings,
                  !.result = IF copy_ok THEN "True" ELSE "False"]
    /\ last' = "run_update"
    /\ UNCHANGED <<tiktoken, warning_75_flag, warning_90_flag, transcript,
                   usage_stats, prompt, mode_before, context, context_length,
                   monitor_ran, selected_line, runs90, emitted90, invocations,
                   projects, branches, head_branch, result>>

InitUpdate ==
    /\ config \in ExistingConfigs
    /\ daic_mode \in {"discussion", "implementation"}
    /\ current_task \in TaskStates
    /\ InitAtRest
    /\ settings \in InstalledSettings
    /\ components \in {ALL_COMPONENTS,
                       ALL_COMPONENTS \ {".claude/agents/logging.md"}}

NextUpdate == \E copy_ok \in BOOLEAN : RunUpdate(copy_ok)

SpecUpdate == InitUpdate /\ [][NextUpdate]_vars

----------------------------------------------------------------------------
(* Properties of the installer and the uninstaller *)

\* the command strings of all hooks of a settings file
SettingsCommands(s) ==
    IF "hooks" \in DOMAIN s
    THEN UNION {commands_of(s.hooks[t]) : t \in DOMAIN s.hooks}
    ELSE {}

\* the settings file registers some cc-sessions hook script
NamesSessionsScript(command) ==
    \E k \in 1..Len(SESSIONS_HOOK_SCRIPTS) :
        Contains(SESSIONS_HOOK_SCRIPTS[k], command)

HasSessionsHooks(s) ==
    \E command \in SettingsCommands(s) : NamesSessionsScript(command)

\* C21: after _remove_all_components either every detected component, the
\* configuration file and the settings hooks are gone, or nothing has been
\* removed
C21_AllOrNothing ==
    last = "remove_all_components" =>
        \/ /\ detected_paths(run) \cap components = {}
           /\ ~HasSessionsHooks(settings)
        \/ /\ detected_paths(run) \subseteq components
           /\ settings = run.before


\* a hook whose command names no cc-sessions hook script
IsUserHook(hook) == ~NamesSessionsScript(Get(hook, "command", <<>>))

\* the hooks of a hook type in file order, all of them or the user's only
RECURSIVE HooksOf(_, _)
HooksOf(entries, user_only) ==
    IF entries = <<>> THEN <<>>
    ELSE LET entry == Head(entries)
             hooks == IF "hooks" \in DOMAIN entry THEN entry.hooks ELSE <<>>
         IN  (IF user_only THEN SelectSeq(hooks, IsUserHook) ELSE hooks)
             \o HooksOf(Tail(entries), user_only)

TypeEntries(s, t) ==
    IF "hooks" \in DOMAIN s /\ t \in DOMAIN s.hooks THEN s.hooks[t] ELSE <<>>

HookTypes(s) == IF "hooks" \in DOMAIN s THEN DOMAIN s.hooks ELSE {}

\* every hook that names a cc-sessions script is gone and the other hooks
\* are the ones of before, in the same order
OnlyUserHooksLeft(before, after) ==
    \A t \in HookTypes(before) \cup HookTypes(after) :
        HooksOf(TypeEntries(after, t), FALSE)
            = HooksOf(TypeEntries(before, t), TRUE)

HasUserHook(entry) ==
    "hooks" \in DOMAIN entry /\ SelectSeq(entry.hooks, IsUserHook) # <<>>

WithoutHooks(entry) == [k \in DOMAIN entry \ {"hooks"} |-> entry[k]]

\* the entries that still have hooks are the entries of before that had a
\* user hook, with their other keys as before
EntriesWithHooksKept(before, after) ==
    \A t \in HookTypes(before) \cup HookTypes(after) :
        LET kept == SelectSeq(TypeEntries(before, t), HasUserHook)
            left == SelectSeq(TypeEntries(after, t), HasUserHook)
        IN  /\ Len(left) = Len(kept)
            /\ \A i \in 1..Len(kept) :
                   WithoutHooks(left[i]) = WithoutHooks(kept[i])

\* the settings named by keys are the same in both files
SameSettings(before, after, keys) ==
    \A k \in keys :
        /\ k \in DOMAIN before <=> k \in DOMAIN after
        /\ k \in DOMAIN before => after[k] = before[k]

NonHookKeys(before, after) == (DOMAIN before \cup DOMAIN after) \ {"hooks"}

SessionsStatusline(s) ==
    /\ "statusLine" \in DOMAIN s
    /\ Contains(STATUSLINE_SCRIPT, Get(s.statusLine, "command", <<>>))

CleanedExisting ==
    last = "remove_settings_hooks" /\ settings_exists(run.before)

\* C22 as stated: _remove_settings_hooks removes the cc-sessions hooks, keeps
\* every other hook and every entry that still has hooks, and leaves every
\* non-hook setting unchanged
C22_NonHookUnchanged ==
    CleanedExisting =>
        /\ OnlyUserHooksLeft(run.before, settings)
        /\ EntriesWithHooksKept(run.before, settings)
        /\ SameSettings(run.before, settings,
                        NonHookKeys(run.before, settings))

\* C22: _remove_settings_hooks removes the cc-sessions hooks, keeps every
\* other hook and every entry that still has hooks, and leaves every non-hook
\* setting unchanged except a statusLine whose command names
\* statusline-script.sh, which it deletes
C22_HooksAndStatuslineOnly ==
    CleanedExisting =>
        /\ OnlyUserHooksLeft(run.before, settings)
        /\ EntriesWithHooksKept(run.before, settings)
        /\ SameSettings(run.before, settings,
                        NonHookKeys(run.before, settings) \ {"statusLine"})
        /\ IF SessionsStatusline(run.before)
           THEN "statusLine" \notin DOMAIN settings
           ELSE SameSettings(run.before, settings, {"statusLine"})

C22_Witness ==
    /\ CleanedExisting
    /\ HasSessionsHooks(run.before)
    /\ SessionsStatusline(run.before)
    /\ USER_HOOK.command \in SettingsCommands(settings)
    /\ "statusLine" \notin DOMAIN settings

UpdateDone == last' = "run_update" /\ run'.result = "True"

\* C23: after run_update every key of the previous sessions-config.json
\* other than version has the same value in the saved configuration
C23_ConfigPreserved ==
    [][UpdateDone =>
          \A key \in DOMAIN config \ {"version"} :
              key \in DOMAIN config' /\ config'[key] = config[key]]_vars

IsPrefix(s, t) == Len(s) <= Len(t) /\ SubSeq(t, 1, Len(s)) = s

\* the entries of before are still there, unchanged and in their places
EntriesKept(before, after) ==
    \A t \in HookTypes(before) :
        /\ t \in HookTypes(after)
        /\ IsPrefix(TypeEntries(before, t), TypeEntries(after, t))

\* C24: the hook merge of save_config keeps the entries the settings file
\* held, and run on the settings a previous save_config wrote it leaves the
\* hooks section unchanged
C24_MergeIdempotent ==
    [][last' = "save_config" =>
          /\ EntriesKept(settings, settings')
          /\ last = "save_config" => settings'.hooks = settings.hooks]_vars

C24_Witness ==
    /\ last = "save_config"
    /\ HOOK_DIR \o SESSION_START \in SettingsCommands(run.before)
    /\ USER_HOOK.command \in SettingsCommands(run.before)
    /\ settings.hooks = run.before.hooks

\* the installation on disk: the components and settings.json
Installation == <<components, settings>>

\* C25: the uninstaller removes nothing before "Proceed with complete
\* uninstall?" is answered yes: the dry run and every answer before that
\* leave the installation as it is, and each of the three declines returns
\* False
C25_NothingBeforeConfirmation ==
    [][/\ Installation' # Installation =>
              run.pc = "confirm" /\ last' = "remove_all_components"
       /\ last' \in {"dry_run", "answer_backup", "answer_without_backup",
                     "answer_continue", "decline"} =>
              Installation' = Installation
       /\ (run'.pc = "done" /\ last' \in {"answer_without_backup",
                                          "answer_continue", "decline"}) =>
              run'.result = "False"]_vars

C25_Witness ==
    /\ last = "answer_continue"
    /\ run.pc = "done"
    /\ run.backup = "failed"
    /\ run.result = "False"
    /\ components = ALL_COMPONENTS
    /\ HasSessionsHooks(settings)

\* C26 as stated: once the 90% warning has been emitted in a session, no
\* later monitor invocation of that session emits the 75% warning
C26_Never75After90 ==
    [][(warning_90_flag /\ last' = "user_messages") =>
          "warning_75" \notin Range(context')]_vars

\* C26: once the 90% warning has been emitted in a session, a later monitor
\* invocation emits the 75% warning only when it finds warned75 unset at
\* 120,000 tokens or more, and it sets warned75; there is at most one such
\* invocation in the session
C26_Once75After90 ==
    [][(warning_90_flag /\ last' = "user_messages") =>
          /\ "warning_75" \in Range(context') <=>
                 monitor_ran' /\ context_length' >= 120000 /\ ~warning_75_flag
          /\ "warning_75" \in Range(context') => warning_75_flag'
          /\ warning_75_flag => warning_75_flag']_vars

C26_Witness ==
    /\ last = "user_messages"
    /\ runs90 >= 2
    /\ emitted90 = 1
    /\ warning_90_flag
    /\ "warning_75" \in Range(context)

\* C27: when the emergency stop fires for a message, the output for that
\* message does not carry the implementation-mode annotation
C27_StopWithoutActivation ==
    (last = "user_messages" /\ "emergency_stop" \in Range(context)) =>
        "implementation_mode" \notin Range(context)

\* the commands save_config defines
SessionsCommands ==
    UNION {commands_of(sessions_hooks[t]) : t \in DOMAIN sessions_hooks}

\* C28: after save_config every cc-sessions hook command it defines is
\* registered in settings.json, whatever the file held before
C28_AllRegistered ==
    last = "save_config" => SessionsCommands \subseteq SettingsCommands(settings)

HooksSection(s) ==
    IF "hooks" \in DOMAIN s THEN [present |-> TRUE, hooks |-> s.hooks]
    ELSE [present |-> FALSE, hooks |-> <<>>]

\* C29: save_config followed by _remove_settings_hooks, on settings without
\* cc-sessions hooks, yields the hooks section the settings had before
C29_RoundTrip ==
    (/\ last = "remove_settings_hooks"
     /\ run.after_install
     /\ ~HasSessionsHooks(run.original)) =>
        HooksSection(settings) = HooksSection(run.original)

\* C30: run_update leaves the persisted mode and the current-task record as
\* they were
C30_StateKept ==
    [][UpdateDone =>
          daic_mode' = daic_mode /\ current_task' = current_task]_vars
====
